---- MODULE Spec2Model ----
(***************************************************************************)
(* Landings: logbook-to-airport matching engine.                           *)
(*                                                                         *)
(* Strings are modelled as sequences of one-character strings, so that     *)
(* trimming, upper-casing, edge stripping and the regular expressions of   *)
(* the source are computed character by character.  The degree sign        *)
(* (U+00B0) is written as the one-character token "deg".                   *)
(***************************************************************************)
EXTENDS Integers, Sequences, FiniteSets, TLC

VARIABLES
    \* ---- identifier normalizer (lib/normalize) ----
    npc,            \* "idle" | "input" | "done"
    token,          \* the argument string
    normalized,     \* normalizeFacilityId(token)
    renormalized,   \* normalizeFacilityId(normalizeFacilityId(token))
    coordinateLike, \* isCoordinateToken(token)
    tokens          \* tokenizeText(token)

normVars == <<npc, token, normalized, renormalized, coordinateLike, tokens>>

VARIABLES
    \* ---- logbook parser (lib/foreflight, parseForeFlightCsv) ----
    ppc,            \* "idle" | "start" | "scan" | "done"
    parsed,         \* result of Papa.parse: [data, errors]
    rows,           \* parsed.data without zero-column rows
    headerIndex,    \* 1-based; 0 stands for the -1 of findIndex
    fromIndex,
    toIndex,
    dateIndex,
    textIndexes,
    ri,             \* the loop variable i, 1-based
    emptyRun,
    flights,
    error,          \* Undefined when the result has no error field
    pushedAt        \* history: the row index each flight was built from

parseVars == <<ppc, parsed, rows, headerIndex, fromIndex, toIndex, dateIndex,
               textIndexes, ri, emptyRun, flights, error, pushedAt>>

VARIABLES
    \* ---- coverage engine (lib/coverage, computeFacilityMatches) ----
    mpc,            \* "idle" | "loop" | "done"
    mflights,       \* the flights argument
    facilityIds,    \* the facilityIds argument
    facilitiesById, \* the entries of the optional Map, in iteration order;
                    \* None when the argument is omitted
    matches,        \* the Map under construction: id -> counts
    fi,             \* position of the for..of loop over flights, 1-based
    coordCalls      \* history: the calls of addCoordinateEndpointMatch

matchVars == <<mpc, mflights, facilityIds, facilitiesById, matches, fi, coordCalls>>

VARIABLES
    \* ---- coverage engine (lib/coverage, computeVisitedSet, computeFrequency) ----
    vpc,            \* "idle" | "input" | "done"
    vmatches,       \* the matches argument: id -> counts
    options,        \* [includeNotes, useEndpoints, arrivalsOnly]
    visited,        \* computeVisitedSet(vmatches, options), None before the call
    frequency       \* computeFrequency(vmatches, options), None before the call

visitVars == <<vpc, vmatches, options, visited, frequency>>

VARIABLES
    \* ---- coverage engine (lib/coverage, buildScopeFacilities) ----
    spc,              \* "idle" | "input" | "done"
    scope,            \* "public" | "private" | "heliport" | "seaplane" | "all"
    publicFacilities,
    ourFacilities,
    bravoExcluded,
    scopeFacilities   \* the returned list

scopeVars == <<spc, scope, publicFacilities, ourFacilities, bravoExcluded, scopeFacilities>>

VARIABLES
    \* ---- facility catalog (lib/datasets, parseFacilitiesMaster) ----
    cpc,            \* "idle" | "input" | "done"
    catalogRows,    \* parsed.data of Papa.parse with header: true
    masterFacilities \* the returned Facility list

catalogVars == <<cpc, catalogRows, masterFacilities>>

VARIABLES
    \* ---- the page (components/LandingsApp): React state.  The flights
    \* state and the memoized facilityIds, facilityById and matches are held
    \* in mflights, facilityIds, facilitiesById and matches above ----
    apc,                  \* "idle" | "mounted"
    appFacilities,        \* the publicFacilities state
    selectedState,
    manualStateSelection,
    mapFilter,            \* "all" | "visited" | "unvisited"
    homeBaseId,           \* None for null
    tripMaxDistanceNm,
    tripMinRunwayFt,
    tripSurfaceFilter,
    tripTowerFilter       \* "any" | "towered" | "nontowered"

appVars == <<apc, appFacilities, selectedState, manualStateSelection, mapFilter,
             homeBaseId, tripMaxDistanceNm, tripMinRunwayFt, tripSurfaceFilter,
             tripTowerFilter>>

VARIABLES
    \* ---- two calls of computeFacilityMatches over one catalog, each
    \* followed by reads of its result.  The catalog arguments are held in
    \* facilityIds and facilitiesById above ----
    rpc,            \* "idle" | "running"
    runFlights,     \* the flights argument of each call
    runMatches,     \* the Map each call builds: id -> counts
    runAt,          \* position of each call's loop over flights, 1-based
    runReturned,    \* the Map each call has returned, None before it returns
    runReads        \* whether each returned Map has been read

runVars == <<rpc, runFlights, runMatches, runAt, runReturned, runReads>>

VARIABLES
    \* ---- local persistence (lib/storage) ----
    tpc,            \* "idle" | "ready" | "clearing"
    idb,            \* the value under the CSV key of the IndexedDB store
    ls,             \* localStorage: the value under each key, None when absent
    saveCount,      \* the clock read by saveSavedCsv
    lastSaved,      \* history: the payload of the latest saveSavedCsv
    cleared,        \* history: clearAllLocalData has completed and nothing
                    \* has been saved since
    lastOp,         \* history: the operation that completed last
    loaded          \* the value loadSavedCsv returned last

storeVars == <<tpc, idb, ls, saveCount, lastSaved, cleared, lastOp, loaded>>

VARIABLES
    \* ---- the page (components/LandingsApp): the forEach of visitStats over
    \* the flights held in mflights, for the ids in facilityIds ----
    stpc,           \* "idle" | "loop" | "done"
    stats,          \* the Map under construction, entries in insertion order
    sti,            \* position of the forEach, 1-based
    visitEvents     \* history: the calls of addVisit, [id, timestamp]

statVars == <<stpc, stats, sti, visitEvents>>

VARIABLES
    \* ---- the page (components/LandingsApp) from its first render: the
    \* effects, the fetch of the catalog, the restore of the saved logbook
    \* and an import.  The page state is held in the page variables above,
    \* the stores in idb and ls ----
    homeBaseHydrated,   \* homeBaseHydratedRef.current
    catalogPending,     \* the fetch of the catalog has not settled
    restorePc,          \* restoreSavedCsv: "idle" | "opening" | "queued" | "done"
    restoreRead,        \* what its loadSavedCsv returned
    importPc,           \* handleForeFlightFile: "idle" | "reading" | "opening" | "queued"
    importText,         \* the text of the file being imported
    imports,            \* the number of imports started
    saveDue,            \* homeBaseId changed since the save effect ran
    homeBaseDue,        \* homeBaseId or homeBaseOptions changed since the
                        \* home base effect ran
    storedAtMount,      \* history: the stored home base when the page mounted
    imported            \* history: the flights of the last import that
                        \* completed, None when there is none

mountVars == <<homeBaseHydrated, catalogPending, restorePc, restoreRead, importPc,
               importText, imports, saveDue, homeBaseDue, storedAtMount, imported>>

laterVars == <<runVars, storeVars, statVars, mountVars>>

vars == <<normVars, parseVars, matchVars, visitVars, scopeVars, catalogVars, appVars,
          laterVars>>

\* what the steps of one component leave alone
exceptNorm == <<parseVars, matchVars, visitVars, scopeVars, catalogVars, appVars, laterVars>>
exceptParse == <<normVars, matchVars, visitVars, scopeVars, catalogVars, appVars, laterVars>>
exceptMatch == <<normVars, parseVars, visitVars, scopeVars, catalogVars, appVars, laterVars>>
exceptVisit == <<normVars, parseVars, matchVars, scopeVars, catalogVars, appVars, laterVars>>
exceptScope == <<normVars, parseVars, matchVars, visitVars, catalogVars, appVars, laterVars>>
exceptCatalog == <<normVars, parseVars, matchVars, visitVars, scopeVars, appVars, laterVars>>
exceptApp == <<normVars, parseVars, visitVars, scopeVars, catalogVars, laterVars>>
exceptRuns == <<normVars, parseVars, visitVars, scopeVars, catalogVars, appVars, storeVars,
                statVars, mountVars>>
exceptStore == <<normVars, parseVars, matchVars, visitVars, scopeVars, catalogVars, appVars,
                 runVars, statVars, mountVars>>
exceptStats == <<normVars, parseVars, visitVars, scopeVars, catalogVars, appVars, runVars,
                 storeVars, mountVars>>
exceptMount == <<normVars, parseVars, visitVars, scopeVars, catalogVars, runVars, statVars>>

-----------------------------------------------------------------------------
(* Characters *)

UpperSeq == <<"A","B","C","D","E","F","G","H","I","J","K","L","M",
              "N","O","P","Q","R","S","T","U","V","W","X","Y","Z">>
LowerSeq == <<"a","b","c","d","e","f","g","h","i","j","k","l","m",
              "n","o","p","q","r","s","t","u","v","w","x","y","z">>

Range(f) == { f[x] : x \in DOMAIN f }

UpperLetters == Range(UpperSeq)
LowerLetters == Range(LowerSeq)
Digits == {"0","1","2","3","4","5","6","7","8","9"}
Whitespace == {" ", "\t"}
UpperAlnum == UpperLetters \cup Digits
LowerAlnum == LowerLetters \cup Digits

\* String.prototype.toUpperCase / toLowerCase, one character at a time
ToUpperChar(c) ==
    IF c \in LowerLetters
    THEN UpperSeq[CHOOSE i \in DOMAIN LowerSeq : LowerSeq[i] = c]
    ELSE c

ToLowerChar(c) ==
    IF c \in UpperLetters
    THEN LowerSeq[CHOOSE i \in DOMAIN UpperSeq : UpperSeq[i] = c]
    ELSE c

toUpperCase(s) == [i \in 1..Len(s) |-> ToUpperChar(s[i])]
toLowerCase(s) == [i \in 1..Len(s) |-> ToLowerChar(s[i])]

Min(a, b) == IF a < b THEN a ELSE b

\* remove the longest prefix / suffix made of characters of cs
RECURSIVE StripLeft(_, _)
StripLeft(s, cs) ==
    IF s # <<>> /\ Head(s) \in cs THEN StripLeft(Tail(s), cs) ELSE s

RECURSIVE StripRight(_, _)
StripRight(s, cs) ==
    IF s # <<>> /\ s[Len(s)] \in cs
    THEN StripRight(SubSeq(s, 1, Len(s) - 1), cs)
    ELSE s

\* String.prototype.trim
trim(s) == StripRight(StripLeft(s, Whitespace), Whitespace)

-----------------------------------------------------------------------------
(* Anchored regular expressions: a pattern is a sequence of items, each a  *)
(* character class with a repetition range; AtLeast is an open range, as   *)
(* in + and *.                                                             *)

Item(cs, lo, hi) == [cs |-> cs, lo |-> lo, hi |-> hi]
AtLeast(cs, lo) == [cs |-> cs, lo |-> lo, hi |-> -1]

\* ^item1 item2 ... itemN$ against s, matching items k.. from position i
RECURSIVE MatchFrom(_, _, _, _)
MatchFrom(s, pat, i, k) ==
    IF k > Len(pat)
    THEN i = Len(s) + 1
    ELSE \E n \in pat[k].lo .. (IF pat[k].hi < 0 THEN Len(s) - i + 1
                                 ELSE Min(pat[k].hi, Len(s) - i + 1)) :
            /\ \A j \in i .. (i + n - 1) : s[j] \in pat[k].cs
            /\ MatchFrom(s, pat, i + n, k + 1)

Matches(s, pat) == MatchFrom(s, pat, 1, 1)

\* unanchored two-character search: /[a][b]/.test(s)
ContainsPair(s, as, bs) ==
    \E i \in 1 .. (Len(s) - 1) : s[i] \in as /\ s[i + 1] \in bs

-----------------------------------------------------------------------------
(* lib/normalize *)

\* cleaned.replace(/^[^A-Z0-9]+|[^A-Z0-9]+$/g, "")
RECURSIVE StripLeftNot(_, _)
StripLeftNot(s, cs) ==
    IF s # <<>> /\ Head(s) \notin cs THEN StripLeftNot(Tail(s), cs) ELSE s

RECURSIVE StripRightNot(_, _)
StripRightNot(s, cs) ==
    IF s # <<>> /\ s[Len(s)] \notin cs
    THEN StripRightNot(SubSeq(s, 1, Len(s) - 1), cs)
    ELSE s

StripEdges(s) == StripRightNot(StripLeftNot(s, UpperAlnum), UpperAlnum)

\* a slip in the repetition range: /^K[A-Z0-9]{3,5}$/
IcaoPatternWide == << Item({"K"}, 1, 1), Item(UpperAlnum, 3, 5) >>

\* /^K[A-Z0-9]{3,4}$/
IcaoPattern == << Item({"K"}, 1, 1), Item(UpperAlnum, 3, 4) >>

normalizeFacilityId(t) ==
    LET cleaned == StripEdges(toUpperCase(trim(t)))
    IN  IF cleaned = <<>> THEN <<>>
        ELSE IF Matches(cleaned, IcaoPattern) THEN Tail(cleaned)
        ELSE cleaned

Sign == {"-", "+"}
Dot == {"."}
NS == {"N", "S"}
EW == {"E", "W"}
NSi == {"N", "S", "n", "s"}
EWi == {"E", "W", "e", "w"}
CommaSlash == {",", "/"}

\* /^[-+]?\d{1,3}\.\d+[NS]?$/
SignedDecimalHemi ==
    << Item(Sign, 0, 1), Item(Digits, 1, 3), Item(Dot, 1, 1),
       AtLeast(Digits, 1), Item(NS, 0, 1) >>

\* /^[-+]?\d{1,3}\.\d+[,/][-+]?\d{1,3}\.\d+$/
SignedDecimalPair ==
    << Item(Sign, 0, 1), Item(Digits, 1, 3), Item(Dot, 1, 1),
       AtLeast(Digits, 1), Item(CommaSlash, 1, 1),
       Item(Sign, 0, 1), Item(Digits, 1, 3), Item(Dot, 1, 1),
       AtLeast(Digits, 1) >>

\* /^[NS]\d{1,2}\.\d+[/,][EW]\d{1,3}\.\d+$/i
HemiPrefixedPair ==
    << Item(NSi, 1, 1), Item(Digits, 1, 2), Item(Dot, 1, 1),
       AtLeast(Digits, 1), Item(CommaSlash, 1, 1),
       Item(EWi, 1, 1), Item(Digits, 1, 3), Item(Dot, 1, 1),
       AtLeast(Digits, 1) >>

isCoordinateToken(t) ==
    LET trimmed == trim(t)
    IN  IF trimmed = <<>> THEN FALSE
        ELSE IF \E i \in 1..Len(trimmed) : trimmed[i] = "deg" THEN TRUE
        ELSE IF ContainsPair(trimmed, NS, Digits)
                \/ ContainsPair(trimmed, Digits, NS) THEN TRUE
        ELSE IF ContainsPair(trimmed, EW, Digits)
                \/ ContainsPair(trimmed, Digits, EW) THEN TRUE
        ELSE IF Matches(trimmed, SignedDecimalHemi) THEN TRUE
        ELSE IF Matches(trimmed, SignedDecimalPair) THEN TRUE
        ELSE IF Matches(trimmed, HemiPrefixedPair) THEN TRUE
        ELSE FALSE

\* the split characters of /[\s,;()\[\]{}<>\/\\|]+|--?|_/g
Separators ==
    Whitespace \cup {",", ";", "(", ")", "[", "]", "{", "}", "<", ">",
                     "/", "\\", "|", "-", "_"}

\* String.prototype.split on runs of separators: the fragments between
\* separators, empty fragments included
RECURSIVE SplitOn(_, _, _)
SplitOn(s, cs, cur) ==
    IF s = <<>> THEN <<cur>>
    ELSE IF Head(s) \in cs THEN <<cur>> \o SplitOn(Tail(s), cs, <<>>)
    ELSE SplitOn(Tail(s), cs, Append(cur, Head(s)))

tokenizeText(text) ==
    LET parts == SplitOn(text, Separators, <<>>)
        trimmed == [i \in 1..Len(parts) |-> trim(parts[i])]
    IN  SelectSeq(trimmed, LAMBDA tk : Len(tk) > 0)

-----------------------------------------------------------------------------
(* lib/foreflight: the logbook parser *)

Undefined == "undefined"
NoFlightsTable == "No Flights Table found."

DATE_HEADER_ALIASES == << <<"d","a","t","e">>, <<"f","l","i","g","h","t","d","a","t","e">> >>
FROM_HEADER_ALIASES ==
    << <<"f","r","o","m">>, <<"o","r","i","g","i","n">>, <<"d","e","p","a","r","t","u","r","e">>,
       <<"f","r","o","m","a","i","r","p","o","r","t">>,
       <<"d","e","p","a","r","t","u","r","e","a","i","r","p","o","r","t">> >>
TO_HEADER_ALIASES ==
    << <<"t","o">>, <<"d","e","s","t","i","n","a","t","i","o","n">>, <<"a","r","r","i","v","a","l">>,
       <<"t","o","a","i","r","p","o","r","t">>,
       <<"a","r","r","i","v","a","l","a","i","r","p","o","r","t">> >>
TEXT_HEADER_HINTS ==
    << <<"n","o","t","e","s">>, <<"r","e","m","a","r","k","s">>, <<"r","o","u","t","e">>,
       <<"c","o","m","m","e","n","t">>, <<"v","i","a">>, <<"a","p","p","r","o","a","c","h">>,
       <<"p","r","o","c","e","d","u","r","e">> >>

\* value.trim().toLowerCase().replace(/[^a-z0-9]+/g, "")
normalizeHeaderCell(value) ==
    SelectSeq(toLowerCase(trim(value)), LAMBDA c : c \in LowerAlnum)

\* row.every((cell) => cell.trim() === "")
isRowEmpty(row) == \A c \in 1..Len(row) : trim(row[c]) = <<>>

EndsWith(s, suffix) ==
    /\ Len(s) >= Len(suffix)
    /\ SubSeq(s, Len(s) - Len(suffix) + 1, Len(s)) = suffix

\* HEADER_TERMINATOR = /Table\s*$/i
HEADER_TERMINATOR(s) ==
    EndsWith(toLowerCase(StripRight(s, Whitespace)), <<"t","a","b","l","e">>)

isSectionHeader(row) ==
    IF Len(row) = 0 THEN FALSE
    ELSE LET first == trim(row[1])
         IN  IF first = <<>> THEN FALSE ELSE HEADER_TERMINATOR(first)

\* Array.prototype.findIndex, 1-based, 0 when nothing is found
FindIndex(seq, Test(_)) ==
    LET hits == { i \in 1..Len(seq) : Test(seq[i]) }
    IN  IF hits = {} THEN 0 ELSE CHOOSE i \in hits : \A j \in hits : i <= j

\* normalized.includes(header)
Includes(seq, x) == \E i \in 1..Len(seq) : seq[i] = x

NormalizedRow(row) == [c \in 1..Len(row) |-> normalizeHeaderCell(row[c])]

\* a slip: the destination column is not required of the header row
QualifiesWithoutTo(row) ==
    LET nrow == NormalizedRow(row)
        hasDate == \E a \in 1..Len(DATE_HEADER_ALIASES) : Includes(nrow, DATE_HEADER_ALIASES[a])
        hasFrom == \E a \in 1..Len(FROM_HEADER_ALIASES) : Includes(nrow, FROM_HEADER_ALIASES[a])
    IN  hasDate /\ hasFrom

QualifiesAsHeader(row) ==
    LET nrow == NormalizedRow(row)
        hasDate == \E a \in 1..Len(DATE_HEADER_ALIASES) : Includes(nrow, DATE_HEADER_ALIASES[a])
        hasFrom == \E a \in 1..Len(FROM_HEADER_ALIASES) : Includes(nrow, FROM_HEADER_ALIASES[a])
        hasTo == \E a \in 1..Len(TO_HEADER_ALIASES) : Includes(nrow, TO_HEADER_ALIASES[a])
    IN  hasDate /\ hasFrom /\ hasTo

findFlightsHeaderIndex(rs) == FindIndex(rs, QualifiesAsHeader)

\* the first alias, in list order, that some header cell equals
RECURSIVE FindColumnFrom(_, _, _)
FindColumnFrom(headers, aliases, a) ==
    IF a > Len(aliases) THEN 0
    ELSE LET index == FindIndex(headers, LAMBDA h : h = aliases[a])
         IN  IF index # 0 THEN index ELSE FindColumnFrom(headers, aliases, a + 1)

\* a slip: the first column holding any alias, whatever the alias order
findColumnIndexAnyAlias(headers, aliases) ==
    FindIndex(headers, LAMBDA h : \E a \in 1..Len(aliases) : h = aliases[a])

findColumnIndex(headers, aliases) == FindColumnFrom(headers, aliases, 1)

\* String.prototype.includes
IsSubstring(sub, s) ==
    \E i \in 1 .. (Len(s) - Len(sub) + 1) : SubSeq(s, i, i + Len(sub) - 1) = sub

IsTextHeader(header) ==
    \E h \in 1..Len(TEXT_HEADER_HINTS) : IsSubstring(TEXT_HEADER_HINTS[h], header)

\* the indexes of the text columns, ascending
findTextColumns(headers) ==
    SelectSeq([c \in 1..Len(headers) |-> c], LAMBDA c : IsTextHeader(headers[c]))

\* row[index] ?? ""
CellAt(row, index) == IF index \in 1..Len(row) THEN row[index] ELSE <<>>

extractTextFields(row, textIdx) ==
    SelectSeq([k \in 1..Len(textIdx) |-> CellAt(row, textIdx[k])],
              LAMBDA value : Len(trim(value)) > 0)

\* parsed.errors[0]?.message || "CSV parse error"
FirstErrorMessage(errors) ==
    IF errors[1] = "" THEN "CSV parse error" ELSE errors[1]

-----------------------------------------------------------------------------
(* lib/coverage: endpoint and notes matching *)

\* an optional value: None for undefined or null, Some(x) otherwise
None == <<>>
Some(x) == <<x>>
ValueOf(opt) == opt[1]

\* distances are in thousandths of a nautical mile
COORDINATE_ENDPOINT_MAX_DISTANCE_NM == 10

\* distanceNm on the grid of the modelled coordinates: the haversine formula
\* with radius 3440.065 nm, evaluated for latitudes 37.5, 37.6, 37.7, 38.1 and
\* longitude differences 0.0, 0.1, 0.2 degrees, floored to thousandths of a
\* nautical mile; keys are <<lat1, lat2, |lon2 - lon1|>> in tenths of a degree
HaversineTable ==
    <<375, 375, 0>> :> 0 @@ <<375, 375, 1>> :> 4763 @@ <<375, 375, 2>> :> 9526 @@
    <<375, 376, 0>> :> 6004 @@ <<375, 376, 1>> :> 7662 @@ <<375, 376, 2>> :> 11255 @@
    <<375, 377, 0>> :> 12008 @@ <<375, 377, 1>> :> 12915 @@ <<375, 377, 2>> :> 15320 @@
    <<376, 375, 0>> :> 6004 @@ <<376, 375, 1>> :> 7662 @@ <<376, 375, 2>> :> 11255 @@
    <<376, 376, 0>> :> 0 @@ <<376, 376, 1>> :> 4756 @@ <<376, 376, 2>> :> 9513 @@
    <<376, 377, 0>> :> 6004 @@ <<376, 377, 1>> :> 7658 @@ <<376, 377, 2>> :> 11244 @@
    <<377, 375, 0>> :> 12008 @@ <<377, 375, 1>> :> 12915 @@ <<377, 375, 2>> :> 15320 @@
    <<377, 376, 0>> :> 6004 @@ <<377, 376, 1>> :> 7658 @@ <<377, 376, 2>> :> 11244 @@
    <<377, 377, 0>> :> 0 @@ <<377, 377, 1>> :> 4750 @@ <<377, 377, 2>> :> 9501 @@
    <<375, 381, 0>> :> 36024 @@ <<375, 381, 1>> :> 36335 @@ <<375, 381, 2>> :> 37252 @@
    <<376, 381, 0>> :> 30020 @@ <<376, 381, 1>> :> 30392 @@ <<376, 381, 2>> :> 31482 @@
    <<377, 381, 0>> :> 24016 @@ <<377, 381, 1>> :> 24479 @@ <<377, 381, 2>> :> 25817 @@
    <<381, 375, 0>> :> 36024 @@ <<381, 375, 1>> :> 36335 @@ <<381, 375, 2>> :> 37252 @@
    <<381, 376, 0>> :> 30020 @@ <<381, 376, 1>> :> 30392 @@ <<381, 376, 2>> :> 31482 @@
    <<381, 377, 0>> :> 24016 @@ <<381, 377, 1>> :> 24479 @@ <<381, 377, 2>> :> 25817 @@
    <<381, 381, 0>> :> 0 @@ <<381, 381, 1>> :> 4724 @@ <<381, 381, 2>> :> 9449

Abs(x) == IF x < 0 THEN -x ELSE x

distanceNm(from, to) ==
    HaversineTable[<< from.latitude, to.latitude,
                      Abs(to.longitude - from.longitude) >>]

\* the point of a facility that has both coordinates
PointOf(facility) ==
    [latitude |-> ValueOf(facility.latitude), longitude |-> ValueOf(facility.longitude)]

\* the ways pat matches s entirely: the number of characters each item takes
RECURSIVE SplitsFrom(_, _, _, _)
SplitsFrom(s, pat, i, k) ==
    IF k > Len(pat)
    THEN IF i = Len(s) + 1 THEN { <<>> } ELSE {}
    ELSE UNION { { <<n>> \o rest : rest \in SplitsFrom(s, pat, i + n, k + 1) } :
                 n \in { m \in pat[k].lo .. (IF pat[k].hi < 0 THEN Len(s) - i + 1
                                             ELSE Min(pat[k].hi, Len(s) - i + 1)) :
                           \A j \in i .. (i + m - 1) : s[j] \in pat[k].cs } }

RECURSIVE SumTo(_, _)
SumTo(split, k) == IF k = 0 THEN 0 ELSE split[k] + SumTo(split, k - 1)

\* the text matched by items a..b of a split
Group(s, split, a, b) == SubSeq(s, SumTo(split, a - 1) + 1, SumTo(split, b))

\* (?:\.\d+)? taken or not
FracGroup(on) ==
    IF on THEN << Item(Dot, 1, 1), AtLeast(Digits, 1) >>
    ELSE << Item(Dot, 0, 0), Item(Digits, 0, 0) >>

Degree == {"deg"}

\* /^(\d{1,2}(?:\.\d+)?)\s*°?\s*([NS])\s*[/,]\s*(\d{1,3}(?:\.\d+)?)\s*°?\s*([EW])$/i
HemiEndpoint(f1, f2) ==
    << Item(Digits, 1, 2) >> \o FracGroup(f1) \o
    << AtLeast(Whitespace, 0), Item(Degree, 0, 1), AtLeast(Whitespace, 0),
       Item(NSi, 1, 1),
       AtLeast(Whitespace, 0), Item(CommaSlash, 1, 1), AtLeast(Whitespace, 0),
       Item(Digits, 1, 3) >> \o FracGroup(f2) \o
    << AtLeast(Whitespace, 0), Item(Degree, 0, 1), AtLeast(Whitespace, 0),
       Item(EWi, 1, 1) >>

\* /^([-+]?\d{1,2}(?:\.\d+)?)\s*[,/]\s*([-+]?\d{1,3}(?:\.\d+)?)$/
SignedEndpoint(f1, f2) ==
    << Item(Sign, 0, 1), Item(Digits, 1, 2) >> \o FracGroup(f1) \o
    << AtLeast(Whitespace, 0), Item(CommaSlash, 1, 1), AtLeast(Whitespace, 0),
       Item(Sign, 0, 1), Item(Digits, 1, 3) >> \o FracGroup(f2)

DigitSeq == <<"0","1","2","3","4","5","6","7","8","9">>
DigitValue(c) == (CHOOSE i \in DOMAIN DigitSeq : DigitSeq[i] = c) - 1

RECURSIVE IntValue(_)
IntValue(ds) ==
    IF ds = <<>> THEN 0
    ELSE 10 * IntValue(SubSeq(ds, 1, Len(ds) - 1)) + DigitValue(ds[Len(ds)])

\* Number(text) for [-+]?digits(.digits)?, in tenths: the modelled inputs
\* carry at most one decimal
Number(text) ==
    LET neg == text # <<>> /\ text[1] = "-"
        body == IF text # <<>> /\ text[1] \in Sign THEN Tail(text) ELSE text
        dots == { i \in 1..Len(body) : body[i] = "." }
        dot == IF dots = {} THEN Len(body) + 1 ELSE CHOOSE i \in dots : TRUE
        whole == IntValue(SubSeq(body, 1, dot - 1))
        tenth == IF dot + 1 <= Len(body) THEN DigitValue(body[dot + 1]) ELSE 0
        magnitude == 10 * whole + tenth
    IN  IF neg THEN -magnitude ELSE magnitude

\* Math.abs(latitude) > 90 || Math.abs(longitude) > 180, else the point
InRange(latitude, longitude) ==
    IF Abs(latitude) > 900 \/ Abs(longitude) > 1800 THEN None
    ELSE Some([latitude |-> latitude, longitude |-> longitude])

parseCoordinateEndpoint(value) ==
    LET trimmed == trim(value)
        hemi == UNION { SplitsFrom(trimmed, HemiEndpoint(f1, f2), 1, 1) :
                        f1 \in BOOLEAN, f2 \in BOOLEAN }
        signed == UNION { SplitsFrom(trimmed, SignedEndpoint(f1, f2), 1, 1) :
                          f1 \in BOOLEAN, f2 \in BOOLEAN }
    IN  IF trimmed = <<>> THEN None
        ELSE IF hemi # {}
        THEN LET m == CHOOSE x \in hemi : TRUE
                 latMag == Number(Group(trimmed, m, 1, 3))
                 latHemi == ToUpperChar(Group(trimmed, m, 7, 7)[1])
                 lonMag == Number(Group(trimmed, m, 11, 13))
                 lonHemi == ToUpperChar(Group(trimmed, m, 17, 17)[1])
             IN  InRange(IF latHemi = "S" THEN -latMag ELSE latMag,
                         IF lonHemi = "W" THEN -lonMag ELSE lonMag)
        ELSE IF signed # {}
        THEN LET m == CHOOSE x \in signed : TRUE
             IN  InRange(Number(Group(trimmed, m, 1, 4)),
                         Number(Group(trimmed, m, 8, 11)))
        ELSE None

ZeroCounts == [endpoint_from |-> 0, endpoint_to |-> 0, notes_match |-> 0]

\* a slip: a source counts once for a facility, however often it is named
addMatchOnce(m, id, source) ==
    IF id \notin facilityIds THEN m
    ELSE LET entry == IF id \in DOMAIN m THEN m[id] ELSE ZeroCounts
         IN  (id :> [entry EXCEPT ![source] = 1]) @@ m

\* a slip: the facility set is not consulted
addMatchAny(m, id, source) ==
    LET entry == IF id \in DOMAIN m THEN m[id] ELSE ZeroCounts
    IN  (id :> [entry EXCEPT ![source] = @ + 1]) @@ m

\* addMatch: one more for id under source, unless id is not a facility
addMatch(m, id, source) ==
    IF id \notin facilityIds THEN m
    ELSE LET entry == IF id \in DOMAIN m THEN m[id] ELSE ZeroCounts
         IN  (id :> [entry EXCEPT ![source] = @ + 1]) @@ m

\* the facilities of the Map that are in the id set and have both coordinates
coordinateCandidates ==
    IF facilitiesById = None THEN <<>>
    ELSE SelectSeq(ValueOf(facilitiesById),
                   LAMBDA facility : /\ facility.id \in facilityIds
                                     /\ facility.latitude # None
                                     /\ facility.longitude # None)

\* a slip: every candidate replaces the one before, whatever its distance
RECURSIVE LastScan(_, _, _, _)
LastScan(coordinate, k, nearestId, nearestDistance) ==
    IF k > Len(coordinateCandidates)
    THEN [id |-> nearestId, distance |-> nearestDistance]
    ELSE LET facility == coordinateCandidates[k]
         IN  LastScan(coordinate, k + 1, facility.id,
                      distanceNm(coordinate, PointOf(facility)))

\* a slip: distance <= nearestDistance, so the last of equal distances stays
RECURSIVE NearestScanLastTie(_, _, _, _)
NearestScanLastTie(coordinate, k, nearestId, nearestDistance) ==
    IF k > Len(coordinateCandidates)
    THEN [id |-> nearestId, distance |-> nearestDistance]
    ELSE LET facility == coordinateCandidates[k]
             distance == distanceNm(coordinate, PointOf(facility))
         IN  IF nearestDistance < 0 \/ distance <= nearestDistance
             THEN NearestScanLastTie(coordinate, k + 1, facility.id, distance)
             ELSE NearestScanLastTie(coordinate, k + 1, nearestId, nearestDistance)

\* the scan for the nearest candidate; a distance of -1 stands for Infinity
RECURSIVE NearestScan(_, _, _, _)
NearestScan(coordinate, k, nearestId, nearestDistance) ==
    IF k > Len(coordinateCandidates)
    THEN [id |-> nearestId, distance |-> nearestDistance]
    ELSE LET facility == coordinateCandidates[k]
             distance == distanceNm(coordinate, PointOf(facility))
         IN  IF nearestDistance < 0 \/ distance < nearestDistance
             THEN NearestScan(coordinate, k + 1, facility.id, distance)
             ELSE NearestScan(coordinate, k + 1, nearestId, nearestDistance)

addCoordinateEndpointMatch(m, value, source) ==
    IF Len(coordinateCandidates) = 0 THEN m
    ELSE LET coordinate == parseCoordinateEndpoint(value)
         IN  IF coordinate = None THEN m
             ELSE LET nearest == NearestScan(ValueOf(coordinate), 1, <<>>, -1)
                  IN  IF /\ nearest.id # <<>>
                         /\ nearest.distance >= 0
                         /\ nearest.distance <= 1000 * COORDINATE_ENDPOINT_MAX_DISTANCE_NM
                      THEN addMatch(m, nearest.id, source)
                      ELSE m

\* a slip: the match map, not the facility set, decides whether the id matched
EndpointMatchedInMap(id) == id # <<>> /\ id \in DOMAIN matches

\* Boolean(from && facilityIds.has(from))
EndpointMatched(id) == id # <<>> /\ id \in facilityIds

\* one endpoint of a flight: the identifier, else the coordinate
matchEndpoint(m, raw, source) ==
    LET id == normalizeFacilityId(raw)
        m1 == IF id # <<>> THEN addMatch(m, id, source) ELSE m
    IN  IF ~EndpointMatched(id) THEN addCoordinateEndpointMatch(m1, raw, source)
        ELSE m1

\* the calls of addCoordinateEndpointMatch made for one endpoint
endpointCalls(raw, source) ==
    IF ~EndpointMatched(normalizeFacilityId(raw))
    THEN << [flight |-> fi, source |-> source, value |-> raw] >>
    ELSE <<>>

\* a slip: no token is left out of the notes matching
SkipsNoToken(tk) == FALSE

\* if (isCoordinateToken(token)) continue;
SkipsToken(tk) == isCoordinateToken(tk)

\* the tokens of one text field
RECURSIVE matchTokens(_, _, _)
matchTokens(m, tks, k) ==
    IF k > Len(tks) THEN m
    ELSE IF SkipsToken(tks[k]) THEN matchTokens(m, tks, k + 1)
    ELSE LET id == normalizeFacilityId(tks[k])
         IN  matchTokens(IF id # <<>> THEN addMatch(m, id, "notes_match") ELSE m,
                         tks, k + 1)

RECURSIVE matchTextFields(_, _, _)
matchTextFields(m, fields, k) ==
    IF k > Len(fields) THEN m
    ELSE matchTextFields(matchTokens(m, tokenizeText(fields[k]), 1), fields, k + 1)

\* the body of the loop over flights
matchFlight(m, flight) ==
    LET afterFrom == matchEndpoint(m, flight.from, "endpoint_from")
        afterTo == matchEndpoint(afterFrom, flight.to, "endpoint_to")
    IN  matchTextFields(afterTo, flight.textFields, 1)

\* a slip: one hub is missing from the exclusions
BRAVO_WITHOUT_LAX == { <<"S","F","O">>, <<"S","A","N">> }

BRAVO_EXCLUSIONS == { <<"S","F","O">>, <<"L","A","X">>, <<"S","A","N">> }

PRIVATE_TYPES == {"small_airport", "medium_airport", "large_airport"}

\* facility.type && PRIVATE_TYPES.has(facility.type) && !publicIds.has(facility.id)
IsPrivate(facility, publicIds) ==
    /\ facility.type # None
    /\ ValueOf(facility.type) \in PRIVATE_TYPES
    /\ facility.id \notin publicIds

\* the list the scope selects, before exclusion and de-duplication
Combined(sc, pub, our) ==
    LET publicIds == { pub[n].id : n \in 1..Len(pub) }
        privateList == SelectSeq(our, LAMBDA f : IsPrivate(f, publicIds))
        heliports == SelectSeq(our, LAMBDA f : f.type = Some("heliport"))
        seaplane == SelectSeq(our, LAMBDA f : f.type = Some("seaplane_base"))
    IN  CASE sc = "public" -> pub
          [] sc = "private" -> privateList
          [] sc = "heliport" -> heliports
          [] sc = "seaplane" -> seaplane
          [] sc = "all" -> pub \o privateList \o heliports \o seaplane
          [] OTHER -> <<>>

\* the position of id among the entries of a Map, 0 when it has no entry
RECURSIVE PositionOf(_, _, _)
PositionOf(entries, id, k) ==
    IF k > Len(entries) THEN 0
    ELSE IF entries[k].id = id THEN k
    ELSE PositionOf(entries, id, k + 1)

\* !value for an optional number: undefined or 0
Falsy(value) == value = None \/ value = Some(0)

\* { ...existing, ...facility }: every key of facility replaces that of
\* existing; state is the one key that entries of the secondary list lack
Spread(existing, facility) ==
    [facility EXCEPT !.state = IF facility.state = None THEN existing.state ELSE @]

\* the loop that fills the Map deduped, whose entries are kept in insertion order
RECURSIVE Dedupe(_, _, _, _)
Dedupe(deduped, combined, excluded, k) ==
    IF k > Len(combined) THEN deduped
    ELSE LET facility == combined[k]
             at == PositionOf(deduped, facility.id, 1)
         IN  IF excluded /\ facility.id \in BRAVO_EXCLUSIONS
             THEN Dedupe(deduped, combined, excluded, k + 1)
             ELSE IF at = 0
             THEN Dedupe(Append(deduped, facility), combined, excluded, k + 1)
             ELSE IF Falsy(deduped[at].latitude) /\ ~Falsy(facility.latitude)
             THEN Dedupe([deduped EXCEPT ![at] = Spread(deduped[at], facility)],
                         combined, excluded, k + 1)
             ELSE Dedupe(deduped, combined, excluded, k + 1)

buildScopeFacilities(sc, pub, our, excluded) ==
    Dedupe(<<>>, Combined(sc, pub, our), excluded, 1)

\* a slip: departures count although only arrivals are asked for
EndpointCountBoth(counts, opts) ==
    IF opts.useEndpoints THEN counts.endpoint_to + counts.endpoint_from ELSE 0

\* the endpoint part of the count: if (options.useEndpoints) { ... }
EndpointCount(counts, opts) ==
    IF opts.useEndpoints
    THEN IF opts.arrivalsOnly THEN counts.endpoint_to
         ELSE counts.endpoint_to + counts.endpoint_from
    ELSE 0

\* the count of one entry in computeVisitedSet
VisitedCount(counts, opts) ==
    EndpointCount(counts, opts) + (IF opts.includeNotes THEN counts.notes_match ELSE 0)

computeVisitedSet(m, opts) ==
    { id \in DOMAIN m : VisitedCount(m[id], opts) > 0 }

\* a slip: with arrivalsOnly the departures stay in the breakdown
FrequencyEndpointsKept(counts, opts) ==
    IF ~opts.useEndpoints
    THEN [counts EXCEPT !.endpoint_from = 0, !.endpoint_to = 0]
    ELSE counts

\* the endpoint counters of the returned breakdown
FrequencyEndpoints(counts, opts) ==
    IF ~opts.useEndpoints
    THEN [counts EXCEPT !.endpoint_from = 0, !.endpoint_to = 0]
    ELSE IF opts.arrivalsOnly THEN [counts EXCEPT !.endpoint_from = 0]
    ELSE counts

\* one entry of computeFrequency: { total, counts }
FrequencyEntry(match, opts) ==
    LET endpoints == IF opts.useEndpoints
                     THEN IF opts.arrivalsOnly THEN match.endpoint_to
                          ELSE match.endpoint_from + match.endpoint_to
                     ELSE 0
        zeroed == FrequencyEndpoints(match, opts)
    IN  IF opts.includeNotes
        THEN [total |-> endpoints + zeroed.notes_match, counts |-> zeroed]
        ELSE [total |-> endpoints, counts |-> [zeroed EXCEPT !.notes_match = 0]]

computeFrequency(m, opts) ==
    [ id \in DOMAIN m |-> FrequencyEntry(m[id], opts) ]

\* a slip: one Map at module level, shared by every call
SharedMap(call) == 1

\* const matches = new Map(): the Map a call of computeFacilityMatches writes
\* to and returns is its own
FreshMap(call) == call

\* what computeVisitedSet and computeFrequency leave in the Map they read:
\* the first only reads match.counts, the second zeroes the counters of a
\* copy, const counts = { ...match.counts }
MatchesAfterRead(m, opts) == m

-----------------------------------------------------------------------------
(* lib/datasets: parseFacilitiesMaster.  A row of Papa.parse with header:   *)
(* true is a function from the column names of the file to cells.           *)

\* row.key || "": a missing column reads as undefined, falsy like ""
Cell(row, key) == IF key \in DOMAIN row THEN row[key] ELSE <<>>

\* row.k1 || row.k2 || ... || ""
RECURSIVE FirstOf(_, _)
FirstOf(row, keys) ==
    IF keys = <<>> THEN <<>>
    ELSE IF Cell(row, Head(keys)) # <<>> THEN Cell(row, Head(keys))
    ELSE FirstOf(row, Tail(keys))

\* the longest prefix of s made of characters of cs
RECURSIVE TakeWhile(_, _)
TakeWhile(s, cs) ==
    IF s # <<>> /\ Head(s) \in cs THEN <<Head(s)>> \o TakeWhile(Tail(s), cs) ELSE <<>>

\* parseFloat followed by Number.isFinite: leading white space is skipped,
\* then the longest prefix [-+]?digits(.digits)? is read and the rest is
\* ignored; None when there is no such prefix (NaN).  Values are in tenths.
parseFloat(text) ==
    LET t == StripLeft(text, Whitespace)
        sign == IF t # <<>> /\ t[1] \in Sign THEN <<t[1]>> ELSE <<>>
        body == SubSeq(t, Len(sign) + 1, Len(t))
        whole == TakeWhile(body, Digits)
        rest == SubSeq(body, Len(whole) + 1, Len(body))
        frac == IF rest # <<>> /\ rest[1] = "." THEN TakeWhile(Tail(rest), Digits) ELSE <<>>
    IN  IF whole = <<>> /\ frac = <<>> THEN None
        ELSE Some(Number(sign \o whole \o (IF frac = <<>> THEN <<>> ELSE <<".">> \o frac)))

Yes == <<"y","e","s">>
No == <<"n","o">>
True == <<"t","r","u","e">>
False == <<"f","a","l","s","e">>

towered(toweredValue) ==
    IF toweredValue = Yes \/ toweredValue = True THEN Some(TRUE)
    ELSE IF toweredValue = No \/ toweredValue = False THEN Some(FALSE)
    ELSE None

SurfaceCategory ==
    { <<"p","a","v","e","d">>, <<"u","n","p","a","v","e","d">>,
      <<"w","a","t","e","r">>, <<"u","n","k","n","o","w","n">> }

surfaceCategory(surfaceValue) ==
    IF surfaceValue \in SurfaceCategory THEN Some(surfaceValue) ELSE None

\* row.type, row.sources, row.corroborated: undefined when the column is missing
Passed(row, key) == IF key \in DOMAIN row THEN Some(row[key]) ELSE None

\* the body of the flatMap: no facility for a row whose id normalizes to ""
FacilityOfRow(row) ==
    LET rawId == FirstOf(row, <<"id", "AIRPORTID", "AIRPORT_ID", "AIRPORT">>)
        id == normalizeFacilityId(rawId)
        name == FirstOf(row, <<"name", "NAME", "AIRPORTNAME", "AIRPORT_NAME">>)
        city == FirstOf(row, <<"city", "CITY", "CITY_NAME", "MUNICIPALITY">>)
        county == FirstOf(row, <<"county", "COUNTY">>)
        latitude == parseFloat(FirstOf(row, <<"latitude", "LATITUDE", "LAT">>))
        longitude == parseFloat(FirstOf(row, <<"longitude", "LONGITUDE", "LON", "LONG">>))
        state == trim(FirstOf(row, <<"state", "STATE", "STATE_CODE">>))
        longestRunwayFt == parseFloat(FirstOf(row, <<"longest_runway_ft", "LONGEST_RUNWAY_FT">>))
        surfaceValue == toLowerCase(trim(FirstOf(row, <<"surface_category", "SURFACE_CATEGORY">>)))
        toweredValue == toLowerCase(trim(FirstOf(row, <<"towered", "TOWERED">>)))
    IN  IF id = <<>> THEN <<>>
        ELSE << [ id |-> id,
                  state |-> Some(state),
                  name |-> IF trim(name) # <<>> THEN trim(name) ELSE id,
                  city |-> trim(city),
                  county |-> trim(county),
                  latitude |-> latitude,
                  longitude |-> longitude,
                  towered |-> towered(toweredValue),
                  longestRunwayFt |-> longestRunwayFt,
                  surfaceCategory |-> surfaceCategory(surfaceValue),
                  source |-> "public",
                  type |-> Passed(row, "type"),
                  sources |-> Passed(row, "sources"),
                  corroborated |-> Passed(row, "corroborated") ] >>

\* parsed.data.flatMap(...)
RECURSIVE parseFacilitiesMaster(_)
parseFacilitiesMaster(data) ==
    IF data = <<>> THEN <<>>
    ELSE FacilityOfRow(Head(data)) \o parseFacilitiesMaster(Tail(data))

-----------------------------------------------------------------------------
(* lib/storage: the saved logbook in IndexedDB with localStorage as         *)
(* fallback, and the settings in localStorage.  An IndexedDB request works *)
(* or is rejected; localStorage works.                                     *)

\* loadSavedCsv: the value returned when the IndexedDB read works or not
loadSavedCsv(idbWorks) ==
    IF idbWorks /\ idb # None THEN idb ELSE ls.foreflight_csv

\* writeLocalStorage(CSV_STORAGE_KEY, payload) in the catch of saveSavedCsv
FallbackWrite(store, payload) == [store EXCEPT !.foreflight_csv = Some(payload)]

hasLocalSettings ==
    \/ ls.dot_radius # None
    \/ ls.selected_state # None
    \/ ls.home_base # None
    \/ ls.map_filter # None

-----------------------------------------------------------------------------
(* components/LandingsApp: the values the page derives from its state on   *)
(* every render (useMemo), and its helper functions.                       *)

CONUS == <<"C","O","N","U","S">>
US == <<"U","S">>
AK == <<"A","K">>
HI == <<"H","I">>

\* the codes of STATE_OPTIONS other than CONUS and US
STATE_CODES ==
    {
      <<"A","L">>, <<"A","K">>, <<"A","Z">>, <<"A","R">>, <<"C","A">>, <<"C","O">>,
      <<"C","T">>, <<"D","E">>, <<"F","L">>, <<"G","A">>, <<"H","I">>, <<"I","D">>,
      <<"I","L">>, <<"I","N">>, <<"I","A">>, <<"K","S">>, <<"K","Y">>, <<"L","A">>,
      <<"M","E">>, <<"M","D">>, <<"M","A">>, <<"M","I">>, <<"M","N">>, <<"M","S">>,
      <<"M","O">>, <<"M","T">>, <<"N","E">>, <<"N","V">>, <<"N","H">>, <<"N","J">>,
      <<"N","M">>, <<"N","Y">>, <<"N","C">>, <<"N","D">>, <<"O","H">>, <<"O","K">>,
      <<"O","R">>, <<"P","A">>, <<"R","I">>, <<"S","C">>, <<"S","D">>, <<"T","N">>,
      <<"T","X">>, <<"U","T">>, <<"V","T">>, <<"V","A">>, <<"W","A">>, <<"W","V">>,
      <<"W","I">>, <<"W","Y">> }

CONTIGUOUS_STATE_CODES == STATE_CODES \ {AK, HI}

TRIP_DISTANCE_DEFAULT == 250

\* facility.state || ""
StateOf(facility) == IF facility.state = None THEN <<>> ELSE ValueOf(facility.state)

\* const scope = "public"; buildScopeFacilities(scope, publicFacilities, [], false)
appScopeFacilities == buildScopeFacilities("public", appFacilities, <<>>, FALSE)

\* the keys of the Map facilitiesByState, in insertion order
RECURSIVE GroupedStates(_, _)
GroupedStates(list, seen) ==
    IF list = <<>> THEN seen
    ELSE LET state == StateOf(Head(list))
         IN  GroupedStates(Tail(list),
                           IF state = <<>> \/ state \in Range(seen) THEN seen
                           ELSE Append(seen, state))

\* facilitiesByState.get(state) || []
facilitiesByState(state) ==
    IF state = <<>> THEN <<>>
    ELSE SelectSeq(appScopeFacilities, LAMBDA f : StateOf(f) = state)

selectedFacilities ==
    IF selectedState = US THEN appScopeFacilities
    ELSE IF selectedState = CONUS
    THEN SelectSeq(appScopeFacilities, LAMBDA f : StateOf(f) \in CONTIGUOUS_STATE_CODES)
    ELSE facilitiesByState(selectedState)

\* new Set(scopeFacilities.map((facility) => facility.id))
appFacilityIds(list) == { list[n].id : n \in 1..Len(list) }

\* days from 1970-01-01 to the day d of month m of year y, in the
\* proleptic Gregorian calendar
DaysFromCivil(y, m, d) ==
    LET yy == IF m <= 2 THEN y - 1 ELSE y
        era == yy \div 400
        yoe == yy - era * 400
        mp == IF m > 2 THEN m - 3 ELSE m + 9
        doy == (153 * mp + 2) \div 5 + d - 1
        doe == yoe * 365 + yoe \div 4 - yoe \div 100 + doy
    IN  era * 146097 + doe - 719468

YearForm == << Item(Digits, 4, 4) >>
MonthForm == YearForm \o << Item({"-"}, 1, 1), Item(Digits, 2, 2) >>
DayForm == MonthForm \o << Item({"-"}, 1, 1), Item(Digits, 2, 2) >>

\* parseFlightDate: new Date(value).getTime() for the date-only forms YYYY,
\* YYYY-MM and YYYY-MM-DD, which are read as UTC midnight; the timestamp is
\* counted in days (the source's milliseconds are 86400000 times this).
\* None stands for null: the empty string, and a string that is no date.
\* Strings outside the date-only forms that an engine's fallback parser
\* would accept are not among the modelled inputs.
parseFlightDate(value) ==
    IF value = <<>> THEN None
    ELSE IF ~(Matches(value, YearForm) \/ Matches(value, MonthForm)
              \/ Matches(value, DayForm))
    THEN None
    ELSE LET y == IntValue(SubSeq(value, 1, 4))
             m == IF Len(value) >= 7 THEN IntValue(SubSeq(value, 6, 7)) ELSE 1
             d == IF Len(value) >= 10 THEN IntValue(SubSeq(value, 9, 10)) ELSE 1
         IN  IF m \in 1..12 /\ d \in 1..31 THEN Some(DaysFromCivil(y, m, d)) ELSE None

\* a slip: the first visit is set once and never lowered
addVisitKeepFirst(list, id, timestamp) ==
    IF id \notin facilityIds THEN list
    ELSE LET at == PositionOf(list, id, 1)
             entry == IF at = 0
                      THEN [id |-> id, count |-> 0, lastVisited |-> None,
                            firstVisited |-> None]
                      ELSE list[at]
             last == IF timestamp # None
                        /\ (entry.lastVisited = None
                            \/ ValueOf(timestamp) > ValueOf(entry.lastVisited))
                     THEN timestamp ELSE entry.lastVisited
             first == IF timestamp # None /\ entry.firstVisited = None
                      THEN timestamp ELSE entry.firstVisited
             updated == [entry EXCEPT !.count = @ + 1, !.lastVisited = last,
                                      !.firstVisited = first]
         IN  IF at = 0 THEN Append(list, updated) ELSE [list EXCEPT ![at] = updated]

\* addVisit: the entries of the Map stats, in insertion order
addVisit(list, id, timestamp) ==
    IF id \notin facilityIds THEN list
    ELSE LET at == PositionOf(list, id, 1)
             entry == IF at = 0
                      THEN [id |-> id, count |-> 0, lastVisited |-> None,
                            firstVisited |-> None]
                      ELSE list[at]
             last == IF timestamp # None
                        /\ (entry.lastVisited = None
                            \/ ValueOf(timestamp) > ValueOf(entry.lastVisited))
                     THEN timestamp ELSE entry.lastVisited
             first == IF timestamp # None
                         /\ (entry.firstVisited = None
                             \/ ValueOf(timestamp) < ValueOf(entry.firstVisited))
                      THEN timestamp ELSE entry.firstVisited
             updated == [entry EXCEPT !.count = @ + 1, !.lastVisited = last,
                                      !.firstVisited = first]
         IN  IF at = 0 THEN Append(list, updated) ELSE [list EXCEPT ![at] = updated]

RECURSIVE visitTokens(_, _, _, _)
visitTokens(list, tks, k, timestamp) ==
    IF k > Len(tks) THEN list
    ELSE IF isCoordinateToken(tks[k]) THEN visitTokens(list, tks, k + 1, timestamp)
    ELSE LET id == normalizeFacilityId(tks[k])
         IN  visitTokens(IF id # <<>> THEN addVisit(list, id, timestamp) ELSE list,
                         tks, k + 1, timestamp)

RECURSIVE visitTextFields(_, _, _, _)
visitTextFields(list, fields, k, timestamp) ==
    IF k > Len(fields) THEN list
    ELSE visitTextFields(visitTokens(list, tokenizeText(fields[k]), 1, timestamp),
                         fields, k + 1, timestamp)

\* the body of flights.forEach in visitStats
visitFlight(list, flight) ==
    LET timestamp == parseFlightDate(flight.date)
        from == normalizeFacilityId(flight.from)
        to == normalizeFacilityId(flight.to)
        afterFrom == IF from # <<>> THEN addVisit(list, from, timestamp) ELSE list
        afterTo == IF to # <<>> THEN addVisit(afterFrom, to, timestamp) ELSE afterFrom
    IN  visitTextFields(afterTo, flight.textFields, 1, timestamp)

RECURSIVE visitAll(_, _, _)
visitAll(list, flightList, k) ==
    IF k > Len(flightList) THEN list
    ELSE visitAll(visitFlight(list, flightList[k]), flightList, k + 1)

\* the visit count and the first and last visit of each facility
visitStats == visitAll(<<>>, mflights, 1)

\* options.sort((a, b) => b.count - a.count): stable, by descending count
RECURSIVE InsertByCount(_, _)
InsertByCount(sorted, option) ==
    IF sorted = <<>> THEN <<option>>
    ELSE IF Head(sorted).count >= option.count
    THEN <<Head(sorted)>> \o InsertByCount(Tail(sorted), option)
    ELSE <<option>> \o sorted

RECURSIVE SortByCount(_)
SortByCount(list) ==
    IF list = <<>> THEN <<>>
    ELSE InsertByCount(SortByCount(SubSeq(list, 1, Len(list) - 1)), list[Len(list)])

homeBaseOptions ==
    LET list == appScopeFacilities
    IN  SortByCount(SelectSeq(visitStats,
                              LAMBDA e : e.count # 0 /\ PositionOf(list, e.id, 1) # 0))

\* facilityById.get(homeBaseId) || null
homeBaseFacility ==
    IF homeBaseId = None THEN None
    ELSE LET list == appScopeFacilities
             at == PositionOf(list, ValueOf(homeBaseId), 1)
         IN  IF at = 0 THEN None ELSE Some(list[at])

\* the flights of the whole logbook, matched: computeFacilityMatches
RECURSIVE matchAll(_, _, _)
matchAll(m, list, k) ==
    IF k > Len(list) THEN m ELSE matchAll(matchFlight(m, list[k]), list, k + 1)

visitedSet ==
    computeVisitedSet(matches, [includeNotes |-> TRUE, useEndpoints |-> TRUE,
                                arrivalsOnly |-> FALSE])

scopeFilteredFacilities ==
    LET visitedIds == visitedSet
    IN  IF mapFilter = "visited"
        THEN SelectSeq(selectedFacilities, LAMBDA f : f.id \in visitedIds)
        ELSE IF mapFilter = "unvisited"
        THEN SelectSeq(selectedFacilities, LAMBDA f : f.id \notin visitedIds)
        ELSE selectedFacilities

unvisitedInScope ==
    LET visitedIds == visitedSet
    IN  SelectSeq(selectedFacilities, LAMBDA f : f.id \notin visitedIds)

visitedFacilities ==
    LET visitedIds == visitedSet
    IN  SelectSeq(scopeFilteredFacilities, LAMBDA f : f.id \in visitedIds)

\* total > 0 ? visited / total : 0, as a fraction num / den
Ratio(visitedCount, total) ==
    IF total > 0 THEN [num |-> visitedCount, den |-> total] ELSE [num |-> 0, den |-> 1]

coverage ==
    LET total == Len(selectedFacilities)
        visitedCount == Len(visitedFacilities)
    IN  [total |-> total, visited |-> visitedCount, ratio |-> Ratio(visitedCount, total)]

\* the entry of the Map coverageByState for a key of facilitiesByState
coverageByState(state) ==
    LET facilities == facilitiesByState(state)
        total == Len(facilities)
        visitedIds == visitedSet
        visitedCount == Len(SelectSeq(facilities, LAMBDA f : f.id \in visitedIds))
    IN  [total |-> total, visited |-> visitedCount, ratio |-> Ratio(visitedCount, total)]

\* Math.max(0, Math.round(lengthFt * 0.75)), undefined for no length or 0;
\* lengthFt is in tenths of a foot, the result in feet
getPlannedRunwayFt(lengthFt) ==
    IF lengthFt = None \/ ValueOf(lengthFt) = 0 THEN None
    ELSE LET rounded == (3 * ValueOf(lengthFt) + 20) \div 40
         IN  Some(IF rounded < 0 THEN 0 ELSE rounded)

\* the same formula as distanceNm of lib/coverage
calculateDistanceNm(from, to) ==
    HaversineTable[<< from.latitude, to.latitude,
                      Abs(to.longitude - from.longitude) >>]

\* a slip: the surface filter is not applied
SurfaceRejectedNever(facility) == FALSE

\* tripSurfaceFilter !== "any" && facility.surfaceCategory !== tripSurfaceFilter
SurfaceRejected(facility) ==
    /\ tripSurfaceFilter # <<"a","n","y">>
    /\ facility.surfaceCategory # Some(tripSurfaceFilter)

\* the callback of flatMap in tripPlannerRows: no row or one row
TripRow(facility, base) ==
    IF facility.latitude = None \/ facility.longitude = None THEN <<>>
    ELSE LET distance == calculateDistanceNm(base, PointOf(facility))
             planned == getPlannedRunwayFt(facility.longestRunwayFt)
         IN  IF distance > tripMaxDistanceNm * 1000 THEN <<>>
             ELSE IF tripMinRunwayFt > 0 /\ (planned = None \/ ValueOf(planned) < tripMinRunwayFt)
             THEN <<>>
             ELSE IF SurfaceRejected(facility) THEN <<>>
             ELSE IF tripTowerFilter = "towered" /\ facility.towered # Some(TRUE) THEN <<>>
             ELSE IF tripTowerFilter = "nontowered" /\ facility.towered = Some(TRUE) THEN <<>>
             ELSE << [facility |-> facility, distanceNm |-> distance] >>

RECURSIVE TripRows(_, _)
TripRows(list, base) ==
    IF list = <<>> THEN <<>> ELSE TripRow(Head(list), base) \o TripRows(Tail(list), base)

\* a.localeCompare(b) < 0 for identifiers of digits and capital letters
CharOrder == DigitSeq \o UpperSeq
Rank(c) == CHOOSE i \in DOMAIN CharOrder : CharOrder[i] = c

RECURSIVE IdBefore(_, _)
IdBefore(a, b) ==
    IF b = <<>> THEN FALSE
    ELSE IF a = <<>> THEN TRUE
    ELSE IF Head(a) # Head(b) THEN Rank(Head(a)) < Rank(Head(b))
    ELSE IdBefore(Tail(a), Tail(b))

\* getPlannedRunwayFt(...) ?? 0
PlannedOrZero(facility) ==
    LET planned == getPlannedRunwayFt(facility.longestRunwayFt)
    IN  IF planned = None THEN 0 ELSE ValueOf(planned)

\* a slip: aRunway - bRunway, the shorter runway first
RowBeforeShortFirst(a, b) ==
    IF a.distanceNm # b.distanceNm THEN a.distanceNm < b.distanceNm
    ELSE IF PlannedOrZero(a.facility) # PlannedOrZero(b.facility)
    THEN PlannedOrZero(a.facility) < PlannedOrZero(b.facility)
    ELSE IdBefore(a.facility.id, b.facility.id)

\* the comparator of the sort is negative for (a, b)
RowBefore(a, b) ==
    IF a.distanceNm # b.distanceNm THEN a.distanceNm < b.distanceNm
    ELSE IF PlannedOrZero(a.facility) # PlannedOrZero(b.facility)
    THEN PlannedOrZero(b.facility) < PlannedOrZero(a.facility)
    ELSE IdBefore(a.facility.id, b.facility.id)

\* the rows sorted by the comparator, which orders rows of distinct ids
RECURSIVE SortRows(_)
SortRows(rowSet) ==
    IF rowSet = {} THEN <<>>
    ELSE LET first == CHOOSE a \in rowSet : \A b \in rowSet \ {a} : RowBefore(a, b)
         IN  <<first>> \o SortRows(rowSet \ {first})

tripPlannerRows ==
    IF \/ homeBaseFacility = None
       \/ ValueOf(homeBaseFacility).latitude = None
       \/ ValueOf(homeBaseFacility).longitude = None
    THEN <<>>
    ELSE SortRows(Range(TripRows(unvisitedInScope, PointOf(ValueOf(homeBaseFacility)))))

-----------------------------------------------------------------------------
(* Bounded input sets, and the resting state of each component *)

\* all sequences over cs of length at most n
RECURSIVE SeqsUpTo(_, _)
SeqsUpTo(cs, n) ==
    IF n = 0 THEN { <<>> }
    ELSE LET shorter == SeqsUpTo(cs, n - 1)
         IN  shorter \cup { Append(s, c) : s \in { x \in shorter : Len(x) = n - 1 }, c \in cs }

MatchIdle ==
    /\ mpc = "idle"
    /\ mflights = <<>>
    /\ facilityIds = {}
    /\ facilitiesById = None
    /\ matches = <<>>
    /\ fi = 0
    /\ coordCalls = <<>>

VisitIdle ==
    /\ vpc = "idle"
    /\ vmatches = <<>>
    /\ options = [includeNotes |-> FALSE, useEndpoints |-> FALSE, arrivalsOnly |-> FALSE]
    /\ visited = None
    /\ frequency = None

ScopeIdle ==
    /\ spc = "idle"
    /\ scope = "public"
    /\ publicFacilities = <<>>
    /\ ourFacilities = <<>>
    /\ bravoExcluded = FALSE
    /\ scopeFacilities = <<>>

CatalogIdle ==
    /\ cpc = "idle"
    /\ catalogRows = <<>>
    /\ masterFacilities = <<>>

AppIdle ==
    /\ apc = "idle"
    /\ appFacilities = <<>>
    /\ selectedState = <<>>
    /\ manualStateSelection = FALSE
    /\ mapFilter = "all"
    /\ homeBaseId = None
    /\ tripMaxDistanceNm = 0
    /\ tripMinRunwayFt = 0
    /\ tripSurfaceFilter = <<>>
    /\ tripTowerFilter = "any"

\* the components that a specification of another component leaves at rest
RunsIdle ==
    /\ rpc = "idle"
    /\ runFlights = <<>>
    /\ runMatches = <<>>
    /\ runAt = <<>>
    /\ runReturned = <<>>
    /\ runReads = <<>>

\* localStorage with no key set
EmptyLocalStorage ==
    [ foreflight_csv |-> None, dot_radius |-> None, selected_state |-> None,
      home_base |-> None, map_filter |-> None ]

StoreIdle ==
    /\ tpc = "idle"
    /\ idb = None
    /\ ls = EmptyLocalStorage
    /\ saveCount = 0
    /\ lastSaved = None
    /\ cleared = FALSE
    /\ lastOp = "none"
    /\ loaded = None

StatsIdle ==
    /\ stpc = "idle"
    /\ stats = <<>>
    /\ sti = 0
    /\ visitEvents = <<>>

MountIdle ==
    /\ homeBaseHydrated = FALSE
    /\ catalogPending = FALSE
    /\ restorePc = "idle"
    /\ restoreRead = None
    /\ importPc = "idle"
    /\ importText = None
    /\ imports = 0
    /\ saveDue = FALSE
    /\ homeBaseDue = FALSE
    /\ storedAtMount = None
    /\ imported = None

LaterIdle == RunsIdle /\ StoreIdle /\ StatsIdle /\ MountIdle

RestIdle == VisitIdle /\ ScopeIdle /\ CatalogIdle /\ AppIdle /\ LaterIdle

NormIdle ==
    /\ npc = "idle"
    /\ token = <<>>
    /\ normalized = <<>>
    /\ renormalized = <<>>
    /\ coordinateLike = FALSE
    /\ tokens = <<>>

-----------------------------------------------------------------------------
(* Inputs of the parser: what Papa.parse returns for the text, rows of raw  *)
(* cells and the list of its error messages.                               *)

MaxRows == 5

HeaderRow == << <<"D","a","t","e">>, <<"F","r","o","m">>, <<"T","o">>, <<"R","e","m","a","r","k","s">> >>
AliasHeaderRow ==
    << <<" ","O","r","i","g","i","n">>, <<"T","o">>, <<"F","R","O","M">>, <<"F","l","i","g","h","t"," ","D","a","t","e">>, <<"R","o","u","t","e">> >>
DataRow == << <<"2","4">>, <<"K","S","F","O">>, <<"K","L","A","X">>, <<" ">>, <<"h","i">> >>
ShortRow == << <<"D","a","t","e">>, <<"F","r","o","m">> >>
BlankRow == << <<>>, <<" ">> >>
SectionRow == << <<"T","o","t","a","l","s"," ","T","a","b","l","e">> >>

RowPool == { HeaderRow, AliasHeaderRow, DataRow, ShortRow, BlankRow, SectionRow }

\* messages of Papa.parse errors (MissingQuotes, UndetectableDelimiter)
PapaErrorPool ==
    { <<>>,
      <<"Unable to auto-detect delimiting character; defaulted to ','",
        "Quoted field unterminated">> }

ParseIdle ==
    /\ ppc = "idle"
    /\ parsed = [data |-> <<>>, errors |-> <<>>]
    /\ rows = <<>>
    /\ headerIndex = 0
    /\ fromIndex = 0
    /\ toIndex = 0
    /\ dateIndex = 0
    /\ textIndexes = <<>>
    /\ ri = 0
    /\ emptyRun = 0
    /\ flights = <<>>
    /\ error = Undefined
    /\ pushedAt = <<>>

InitParse ==
    /\ ppc = "start"
    /\ parsed \in [data : SeqsUpTo(RowPool, MaxRows), errors : PapaErrorPool]
    /\ rows = <<>>
    /\ headerIndex = 0
    /\ fromIndex = 0
    /\ toIndex = 0
    /\ dateIndex = 0
    /\ textIndexes = <<>>
    /\ ri = 0
    /\ emptyRun = 0
    /\ flights = <<>>
    /\ error = Undefined
    /\ pushedAt = <<>>
    /\ NormIdle
    /\ MatchIdle
    /\ RestIdle

\* parsed.data.filter((row) => row.length > 0)
NonEmptyRows(data) == SelectSeq(data, LAMBDA row : Len(row) > 0)

\* a slip: the error field is left out of the returned object
ReturnErrorDropped(msg) ==
    /\ ppc' = "done"
    /\ flights' = <<>>
    /\ error' = Undefined

\* return { flights: [], error }
ReturnError(msg) ==
    /\ ppc' = "done"
    /\ flights' = <<>>
    /\ error' = msg

\* Papa.parse reported errors: the first message is returned
ParseCsvError ==
    /\ ppc = "start"
    /\ Len(parsed.errors) > 0
    /\ ReturnError(FirstErrorMessage(parsed.errors))
    /\ UNCHANGED <<parsed, rows, headerIndex, fromIndex, toIndex, dateIndex,
                   textIndexes, ri, emptyRun, pushedAt, exceptParse>>

\* no row qualifies as the flights header
ParseNoHeader ==
    /\ ppc = "start"
    /\ Len(parsed.errors) = 0
    /\ rows' = NonEmptyRows(parsed.data)
    /\ findFlightsHeaderIndex(rows') = 0
    /\ headerIndex' = 0
    /\ ReturnError(NoFlightsTable)
    /\ UNCHANGED <<parsed, fromIndex, toIndex, dateIndex, textIndexes, ri,
                   emptyRun, pushedAt, exceptParse>>

\* the header is found: resolve the columns and enter the row loop
ParseHeader ==
    /\ ppc = "start"
    /\ Len(parsed.errors) = 0
    /\ rows' = NonEmptyRows(parsed.data)
    /\ headerIndex' = findFlightsHeaderIndex(rows')
    /\ headerIndex' # 0
    /\ LET headerRow == NormalizedRow(rows'[headerIndex'])
       IN  /\ fromIndex' = findColumnIndex(headerRow, FROM_HEADER_ALIASES)
           /\ toIndex' = findColumnIndex(headerRow, TO_HEADER_ALIASES)
           /\ dateIndex' = findColumnIndex(headerRow, DATE_HEADER_ALIASES)
           /\ IF fromIndex' = 0 \/ toIndex' = 0 \/ dateIndex' = 0
              THEN /\ ReturnError(NoFlightsTable)
                   /\ UNCHANGED <<textIndexes, ri, emptyRun>>
              ELSE /\ textIndexes' = findTextColumns(headerRow)
                   /\ flights' = <<>>
                   /\ emptyRun' = 0
                   /\ ri' = headerIndex' + 1
                   /\ ppc' = "scan"
                   /\ UNCHANGED error
    /\ UNCHANGED <<parsed, pushedAt, exceptParse>>

\* if (isSectionHeader(row)) break;
ScanSectionHeader ==
    /\ ppc = "scan"
    /\ ri <= Len(rows)
    /\ isSectionHeader(rows[ri])
    /\ ppc' = "done"
    /\ UNCHANGED <<parsed, rows, headerIndex, fromIndex, toIndex, dateIndex,
                   textIndexes, ri, emptyRun, flights, error, pushedAt, exceptParse>>

\* a blank row: count it, and break on the third in a row
ScanBlankRow ==
    /\ ppc = "scan"
    /\ ri <= Len(rows)
    /\ ~isSectionHeader(rows[ri])
    /\ isRowEmpty(rows[ri])
    /\ emptyRun' = emptyRun + 1
    /\ IF emptyRun' >= 3
       THEN ppc' = "done" /\ UNCHANGED ri
       ELSE ppc' = "scan" /\ ri' = ri + 1
    /\ UNCHANGED <<parsed, rows, headerIndex, fromIndex, toIndex, dateIndex,
                   textIndexes, flights, error, pushedAt, exceptParse>>

\* a slip: the destination is read from the origin column
BuildFlightSameColumn(row, fromIdx, toIdx, dateIdx, textIdx) ==
    [date |-> CellAt(row, dateIdx),
     from |-> CellAt(row, fromIdx),
     to |-> CellAt(row, fromIdx),
     textFields |-> extractTextFields(row, textIdx)]

\* the FlightRow built from a data row
BuildFlight(row, fromIdx, toIdx, dateIdx, textIdx) ==
    [date |-> CellAt(row, dateIdx),
     from |-> CellAt(row, fromIdx),
     to |-> CellAt(row, toIdx),
     textFields |-> extractTextFields(row, textIdx)]

\* a slip: the blank run is not reset by a data row
ScanDataRowNoReset ==
    /\ ppc = "scan"
    /\ ri <= Len(rows)
    /\ ~isSectionHeader(rows[ri])
    /\ ~isRowEmpty(rows[ri])
    /\ flights' = Append(flights,
                         BuildFlight(rows[ri], fromIndex, toIndex, dateIndex, textIndexes))
    /\ pushedAt' = Append(pushedAt, ri)
    /\ ri' = ri + 1
    /\ UNCHANGED <<ppc, parsed, rows, headerIndex, fromIndex, toIndex, dateIndex,
                   textIndexes, emptyRun, error, exceptParse>>

\* a data row: reset the blank run and push one FlightRow
ScanDataRow ==
    /\ ppc = "scan"
    /\ ri <= Len(rows)
    /\ ~isSectionHeader(rows[ri])
    /\ ~isRowEmpty(rows[ri])
    /\ emptyRun' = 0
    /\ flights' = Append(flights,
                         BuildFlight(rows[ri], fromIndex, toIndex, dateIndex, textIndexes))
    /\ pushedAt' = Append(pushedAt, ri)
    /\ ri' = ri + 1
    /\ UNCHANGED <<ppc, parsed, rows, headerIndex, fromIndex, toIndex, dateIndex,
                   textIndexes, error, exceptParse>>

\* the loop condition fails: return { flights }
ScanEnd ==
    /\ ppc = "scan"
    /\ ri > Len(rows)
    /\ ppc' = "done"
    /\ UNCHANGED <<parsed, rows, headerIndex, fromIndex, toIndex, dateIndex,
                   textIndexes, ri, emptyRun, flights, error, pushedAt, exceptParse>>

NextParse ==
    \/ ParseCsvError
    \/ ParseNoHeader
    \/ ParseHeader
    \/ ScanSectionHeader
    \/ ScanBlankRow
    \/ ScanDataRow
    \/ ScanEnd

SpecParse == InitParse /\ [][NextParse]_vars

-----------------------------------------------------------------------------
(* Inputs of the normalizer *)

MaxTokenLen == 6
MaxIdLen == 4

\* identifier-like input: K, another letter, a digit, lower case, punctuation, blank
TokenAlphabet == {"K", "k", "A", "7", "-", " "}
\* identifier and coordinate fragments
IdAlphabet == {"L", "N", "W", "5", "4", "."}

SampleTokens ==
    { <<"(","l","a","x",")">>,
      <<"K","S","F","O">>,
      <<"K","K","S","F","O">>,
      <<"3","7",".","5","N","/","1","2","2",".","2","W">>,
      <<"1","2","2",".","2","W">>,
      <<"3","7",".","5">>,
      <<"-","3","7",".","5",",","1","2","2",".","2">>,
      <<"n","3","7",".","5","/","w","1","2","2",".","2">>,
      <<"3","7","deg">>,
      <<"T","o","u","c","h","e","d"," ","K","M","O","D"," ","t","h","e","n"," ",
        "3","7",".","5","N","/","1","2","2",".","2","W">>,
      <<"S","F","O","-","-","L","A","X","_","V","2","3",";","(","x",")">> }

NormInputs ==
    SeqsUpTo(TokenAlphabet, MaxTokenLen) \cup SeqsUpTo(IdAlphabet, MaxIdLen)
        \cup SampleTokens

InitNorm ==
    /\ npc = "input"
    /\ token \in NormInputs
    /\ normalized = <<>>
    /\ renormalized = <<>>
    /\ coordinateLike = FALSE
    /\ tokens = <<>>
    /\ ParseIdle
    /\ MatchIdle
    /\ RestIdle

Normalize ==
    /\ npc = "input"
    /\ npc' = "done"
    /\ normalized' = normalizeFacilityId(token)
    /\ renormalized' = normalizeFacilityId(normalizeFacilityId(token))
    /\ coordinateLike' = isCoordinateToken(token)
    /\ tokens' = tokenizeText(token)
    /\ UNCHANGED <<token, exceptNorm>>

NextNorm == Normalize

SpecNorm == InitNorm /\ [][NextNorm]_vars

-----------------------------------------------------------------------------
(* Inputs of the coverage engine *)

MaxFlights == 2

SFO == <<"S","F","O">>
SQL == <<"S","Q","L">>
L54 == <<"L","5","4">>
MOD == <<"M","O","D">>
OAK == <<"O","A","K">>
PAO == <<"P","A","O">>
L35 == <<"L","3","5">>
S50 == <<"S","5","0">>

\* a Facility, reduced to the fields the matching reads; tenths of a degree
Facility(id, latitude, longitude) ==
    [id |-> id, latitude |-> latitude, longitude |-> longitude]

FacSFO == Facility(SFO, Some(376), Some(-1223))
FacSQL == Facility(SQL, Some(375), Some(-1222))
FacMOD == Facility(MOD, Some(377), Some(-1224))
FacOAK == Facility(OAK, Some(377), Some(-1223))
FacPAO == Facility(PAO, Some(375), Some(-1223))
FacL54 == Facility(L54, None, None)
FacL35 == Facility(L35, Some(376), None)
FacS50 == Facility(S50, None, None)

\* the facilityIds and facilitiesById arguments
CatalogPool ==
    { [ids |-> {SFO, SQL, L54, MOD}, byId |-> Some(<<FacSFO, FacSQL, FacL54, FacMOD>>)],
      [ids |-> {SFO, SQL}, byId |-> None],
      [ids |-> {SQL, L54}, byId |-> Some(<<FacSFO, FacSQL, FacL54>>)],
      [ids |-> {OAK, PAO, L35}, byId |-> Some(<<FacOAK, FacPAO, FacL35>>)],
      [ids |-> {PAO, S50}, byId |-> Some(<<FacPAO, FacS50>>)] }

FromPool ==
    { <<"K","S","F","O">>,
      <<"3","7",".","6","deg","N","/","1","2","2",".","3","deg","W">>,
      <<"3","7",".","7",",","-","1","2","2",".","3">>,
      <<" ","3","7",".","7"," ","n"," ",","," ","1","2","2",".","4"," ","w">>,
      <<"9","5",",","1","0">> }

ToPool ==
    { <<"K","S","Q","L">>,
      <<"3","7",".","5","/","-","1","2","2",".","2">> }

Flight(from, to, textFields) ==
    [date |-> <<"2","0","2","4">>, from |-> from, to |-> to, textFields |-> textFields]

CoordinateSFO == <<"3","7",".","6","deg","N","/","1","2","2",".","3","deg","W">>
CoordinateNearMOD == <<"3","7",".","7",",","-","1","2","2",".","3">>
Note == <<"T","o","u","c","h","e","d"," ","K","M","O","D"," ","t","h","e","n"," ","3","7",".","5","N","/","1","2","2",".","2","W">>
\* "KSQL S50": an identifier, and an identifier that reads as a coordinate
NoteSQL == <<"K","S","Q","L"," ","S","5","0">>
\* "(PAO|pao)": one facility named twice
NotePAO == <<"(","P","A","O","|","p","a","o",")">>

\* a flight that names SQL as origin, as destination and in its remarks
PatternFlight == Flight(<<"K","S","Q","L">>, <<"s","q","l">>, <<NoteSQL, NotePAO>>)

\* every pair of endpoints without notes, a flight with a note and no
\* destination, and the pattern flight
FlightPool ==
    { Flight(f, t, <<>>) : f \in FromPool, t \in ToPool }
        \cup { Flight(L54, <<>>, <<Note>>), PatternFlight }

InitMatch ==
    /\ mpc = "loop"
    /\ mflights \in SeqsUpTo(FlightPool, MaxFlights)
    /\ \E catalog \in CatalogPool :
          /\ facilityIds = catalog.ids
          /\ facilitiesById = catalog.byId
    /\ matches = <<>>
    /\ fi = 1
    /\ coordCalls = <<>>
    /\ NormIdle
    /\ ParseIdle
    /\ RestIdle

\* one iteration of the loop over flights
ProcessFlight ==
    /\ mpc = "loop"
    /\ fi <= Len(mflights)
    /\ matches' = matchFlight(matches, mflights[fi])
    /\ coordCalls' = coordCalls
                        \o endpointCalls(mflights[fi].from, "endpoint_from")
                        \o endpointCalls(mflights[fi].to, "endpoint_to")
    /\ fi' = fi + 1
    /\ UNCHANGED <<mpc, mflights, facilityIds, facilitiesById, exceptMatch>>

\* return matches
ReturnMatches ==
    /\ mpc = "loop"
    /\ fi > Len(mflights)
    /\ mpc' = "done"
    /\ UNCHANGED <<mflights, facilityIds, facilitiesById, matches, fi, coordCalls,
                   exceptMatch>>

NextMatch == ProcessFlight \/ ReturnMatches

SpecMatch == InitMatch /\ [][NextMatch]_vars

-----------------------------------------------------------------------------
(* Inputs of computeVisitedSet and computeFrequency: any match map over     *)
(* two ids, with counters up to MaxCount, and any options.                  *)

MaxCount == 1

CountsPool == [endpoint_from : 0..MaxCount, endpoint_to : 0..MaxCount, notes_match : 0..MaxCount]

MatchMapPool == UNION { [ids -> CountsPool] : ids \in SUBSET {SFO, SQL} }

OptionsPool == [includeNotes : BOOLEAN, useEndpoints : BOOLEAN, arrivalsOnly : BOOLEAN]

InitVisit ==
    /\ vpc = "input"
    /\ vmatches \in MatchMapPool
    /\ options \in OptionsPool
    /\ visited = None
    /\ frequency = None
    /\ NormIdle
    /\ ParseIdle
    /\ MatchIdle
    /\ ScopeIdle
    /\ CatalogIdle
    /\ AppIdle
    /\ LaterIdle

\* the call of computeVisitedSet
ComputeVisitedSet ==
    /\ vpc = "input"
    /\ visited = None
    /\ visited' = Some(computeVisitedSet(vmatches, options))
    /\ vpc' = IF frequency # None THEN "done" ELSE vpc
    /\ UNCHANGED <<vmatches, options, frequency, exceptVisit>>

\* the call of computeFrequency
ComputeFrequency ==
    /\ vpc = "input"
    /\ frequency = None
    /\ frequency' = Some(computeFrequency(vmatches, options))
    /\ vpc' = IF visited # None THEN "done" ELSE vpc
    /\ UNCHANGED <<vmatches, options, visited, exceptVisit>>

NextVisit == ComputeVisitedSet \/ ComputeFrequency

SpecVisit == InitVisit /\ [][NextVisit]_vars

-----------------------------------------------------------------------------
(* Inputs of buildScopeFacilities: lists as the two catalog parsers return  *)
(* them.  An entry of the primary list has a state, an entry of the         *)
(* secondary list has none.                                                 *)

MaxPublic == 3
MaxOurs == 2

ABC == <<"A","B","C">>
SAN == <<"S","A","N">>
LAX == <<"L","A","X">>

CatalogEntry(id, state, name, latitude, longitude, source, type) ==
    [id |-> id, state |-> state, name |-> name, latitude |-> latitude,
     longitude |-> longitude, source |-> source, type |-> type]

PublicPool ==
    { CatalogEntry(SFO, Some("CA"), "San Francisco Intl", Some(376), Some(-1223), "public", None),
      CatalogEntry(SQL, Some("CA"), "San Carlos", Some(375), Some(-1222), "public", None),
      CatalogEntry(ABC, Some("CA"), "Alpha", None, None, "public", None),
      CatalogEntry(ABC, Some("NV"), "Bravo", Some(375), Some(-1222), "public", Some("small_airport")) }

OursPool ==
    { CatalogEntry(ABC, None, "Alpha Heliport", Some(377), None, "ourairports", Some("heliport")),
      CatalogEntry(SAN, None, "San Diego Intl", Some(327), Some(-1172), "ourairports", Some("large_airport")),
      CatalogEntry(LAX, None, "Los Angeles Seaplane Base", Some(339), Some(-1184), "ourairports", Some("seaplane_base")) }

ScopePool == {"public", "private", "heliport", "seaplane", "all"}

InitScope ==
    /\ spc = "input"
    /\ scope \in ScopePool
    /\ publicFacilities \in SeqsUpTo(PublicPool, MaxPublic)
    /\ ourFacilities \in SeqsUpTo(OursPool, MaxOurs)
    /\ bravoExcluded \in BOOLEAN
    /\ scopeFacilities = <<>>
    /\ NormIdle
    /\ ParseIdle
    /\ MatchIdle
    /\ VisitIdle
    /\ CatalogIdle
    /\ AppIdle
    /\ LaterIdle

\* the call of buildScopeFacilities
BuildScope ==
    /\ spc = "input"
    /\ scopeFacilities' = buildScopeFacilities(scope, publicFacilities, ourFacilities, bravoExcluded)
    /\ spc' = "done"
    /\ UNCHANGED <<scope, publicFacilities, ourFacilities, bravoExcluded, exceptScope>>

NextScope == BuildScope

SpecScope == InitScope /\ [][NextScope]_vars

-----------------------------------------------------------------------------
(* Inputs of parseFacilitiesMaster: the rows Papa.parse returns for a       *)
(* catalog file.                                                            *)

MaxCatalogRows == 3

\* id KABC, a towered paved field of 5000 ft
RowKABC ==
    [ id |-> <<"K","A","B","C">>, name |-> <<" ","A","l","p","h","a"," ">>,
      latitude |-> <<"3","7",".","5">>, longitude |-> <<"-","1","2","2",".","2">>,
      state |-> <<"C","A">>, longest_runway_ft |-> <<"5","0","0","0">>,
      surface_category |-> <<"P","a","v","e","d"," ">>, towered |-> <<"Y","e","s">>,
      type |-> <<"s","m","a","l","l">> ]

\* the same field under the AIRPORTID column, with a negative length
RowABC ==
    [ id |-> <<>>, AIRPORTID |-> <<"A","B","C">>, NAME |-> <<"B","r","a","v","o">>,
      LAT |-> <<"a","b","c">>, longest_runway_ft |-> <<"-","1","0","0">>,
      towered |-> <<"n","o">> ]

\* an id of punctuation only
RowDashes ==
    [ id |-> <<"-","-">>, name |-> <<"N","o","n","e">>, longest_runway_ft |-> <<"a","b","c">> ]

\* a padded lower-case id, a length with a fraction, an unlisted surface
RowSql ==
    [ id |-> <<" ","s","q","l"," ">>, longest_runway_ft |-> <<"2","5","0","0",".","5">>,
      surface_category |-> <<"g","r","a","s","s">>, towered |-> <<"m","a","y","b","e">> ]

\* a length followed by its unit, and an empty length under the first alias
RowSFO ==
    [ AIRPORT |-> <<"S","F","O">>, longest_runway_ft |-> <<>>,
      LONGEST_RUNWAY_FT |-> <<" ","8","0","0","f","t">>, surface_category |-> <<"w","a","t","e","r">> ]

\* no length at all
RowL54 == [ id |-> <<"L","5","4">>, towered |-> <<"T","R","U","E">> ]

CatalogRowPool == { RowKABC, RowABC, RowDashes, RowSql, RowSFO, RowL54 }

InitCatalog ==
    /\ cpc = "input"
    /\ catalogRows \in SeqsUpTo(CatalogRowPool, MaxCatalogRows)
    /\ masterFacilities = <<>>
    /\ NormIdle
    /\ ParseIdle
    /\ MatchIdle
    /\ VisitIdle
    /\ ScopeIdle
    /\ AppIdle
    /\ LaterIdle

\* the call of parseFacilitiesMaster
ParseFacilitiesMaster ==
    /\ cpc = "input"
    /\ masterFacilities' = parseFacilitiesMaster(catalogRows)
    /\ cpc' = "done"
    /\ UNCHANGED <<catalogRows, exceptCatalog>>

NextCatalog == ParseFacilitiesMaster

SpecCatalog == InitCatalog /\ [][NextCatalog]_vars

-----------------------------------------------------------------------------
(* Inputs of the page: the catalog file it fetches and the logbooks the    *)
(* pilot imports.                                                          *)

MaxAppFlights == 2

\* the rows of the catalog file: id, state, position, longest runway, surface
\* and tower.  STS is 24 to 37 nm from the others, which lie within 16 nm of
\* one another; HNL has no position, L54 no runway length, ZZZ no state.
\* HAF, L54 and ZZZ share one position, so their distances from any point
\* are equal; every other pair of distances from one point differs by more
\* than a thousandth of a nautical mile.
AppRowSQL ==
    [ id |-> <<"K","S","Q","L">>, state |-> <<"C","A">>, latitude |-> <<"3","7",".","5">>, longitude |-> <<"-","1","2","2",".","2">>,
      longest_runway_ft |-> <<"2","6","0","0">>, surface_category |-> <<"p","a","v","e","d">>, towered |-> <<"y","e","s">> ]

AppRowPAO ==
    [ id |-> <<"P","A","O">>, state |-> <<"C","A">>, latitude |-> <<"3","7",".","5">>, longitude |-> <<"-","1","2","2",".","3">>,
      longest_runway_ft |-> <<"2","4","4","3">>, surface_category |-> <<"P","a","v","e","d">>, towered |-> <<"Y","e","s">> ]

AppRowHAF ==
    [ id |-> <<"K","H","A","F">>, state |-> <<"C","A">>, latitude |-> <<"3","7",".","6">>, longitude |-> <<"-","1","2","2",".","4">>,
      longest_runway_ft |-> <<"5","0","0","0">>, surface_category |-> <<"p","a","v","e","d">>, towered |-> <<"n","o">> ]

AppRowOAK ==
    [ id |-> <<"K","O","A","K">>, state |-> <<"C","A">>, latitude |-> <<"3","7",".","7">>, longitude |-> <<"-","1","2","2",".","3">>,
      longest_runway_ft |-> <<"1","0","5","2","0">>, surface_category |-> <<"p","a","v","e","d">>, towered |-> <<"y","e","s">> ]

AppRowL54 ==
    [ id |-> <<"L","5","4">>, state |-> <<"C","A">>, latitude |-> <<"3","7",".","6">>, longitude |-> <<"-","1","2","2",".","4">>,
      longest_runway_ft |-> <<>>, surface_category |-> <<"u","n","p","a","v","e","d">>, towered |-> <<>> ]

AppRowW01 ==
    [ id |-> <<"W","0","1">>, state |-> <<"N","V">>, latitude |-> <<"3","7",".","7">>, longitude |-> <<"-","1","2","2",".","4">>,
      longest_runway_ft |-> <<"1","0","0","0">>, surface_category |-> <<"w","a","t","e","r">>, towered |-> <<"n","o">> ]

AppRowSTS ==
    [ id |-> <<"K","S","T","S">>, state |-> <<"C","A">>, latitude |-> <<"3","8",".","1">>, longitude |-> <<"-","1","2","2",".","3">>,
      longest_runway_ft |-> <<"6","0","0","0">>, surface_category |-> <<"p","a","v","e","d">>, towered |-> <<"y","e","s">> ]

AppRowHNL ==
    [ id |-> <<"H","N","L">>, state |-> <<"H","I">>, latitude |-> <<>>, longitude |-> <<>>,
      longest_runway_ft |-> <<"1","2","0","0","0">>, surface_category |-> <<"p","a","v","e","d">>, towered |-> <<"y","e","s">> ]

AppRowZZZ ==
    [ id |-> <<"Z","Z","Z">>, state |-> <<>>, latitude |-> <<"3","7",".","6">>, longitude |-> <<"-","1","2","2",".","4">>,
      longest_runway_ft |-> <<"-","1","0","0">>, surface_category |-> <<"u","n","k","n","o","w","n">>, towered |-> <<"n","o">> ]

AppCatalogRows ==
    << AppRowSQL, AppRowPAO, AppRowHAF, AppRowOAK, AppRowL54, AppRowW01, AppRowSTS, AppRowHNL, AppRowZZZ >>


\* the catalog as fetched
AppCatalogPool == { parseFacilitiesMaster(AppCatalogRows) }

\* the flights of the pilot's logbook file: a local flight by identifiers
\* with STS in the remarks; a flight from a position at OAK to HNL; a flight
\* from and to L54
AppLogbook ==
    << Flight(<<"K","S","Q","L">>, <<"K","P","A","O">>,
              << <<"L","u","n","c","h"," ","a","t"," ","K","S","T","S">> >>),
       Flight(CoordinateNearMOD, <<"h","n","l">>, <<>>),
       Flight(L54, L54, <<>>) >>

\* the logbook files the pilot imports: the first flights of the logbook
AppLogbooks ==
    { SubSeq(AppLogbook, 1, n) :
         n \in 0..(IF MaxAppFlights < Len(AppLogbook) THEN MaxAppFlights ELSE Len(AppLogbook)) }

\* the whole country and a state without facilities in the catalog; the
\* contiguous states are selected at the start, a state by AutoSelectState
AppStatePool == {US, AK}

Paved == <<"p","a","v","e","d">>
Water == <<"w","a","t","e","r">>
AnySurface == <<"a","n","y">>

TripSurfacePool == {AnySurface, Water}
TripTowerFilter == {"any", "towered", "nontowered"}
TripDistancePool == {25, TRIP_DISTANCE_DEFAULT}
TripRunwayPool == {0, 800}

\* the page after it has mounted and the fetch of the catalog has settled
InitApp ==
    /\ apc = "mounted"
    /\ appFacilities \in AppCatalogPool
    /\ selectedState = CONUS
    /\ manualStateSelection = FALSE
    /\ mapFilter = "all"
    /\ homeBaseId = None
    /\ tripMaxDistanceNm = TRIP_DISTANCE_DEFAULT
    /\ tripMinRunwayFt = 800
    /\ tripSurfaceFilter = Paved
    /\ tripTowerFilter = "any"
    /\ mpc = "done"
    /\ mflights = <<>>
    /\ facilityIds = appFacilityIds(appScopeFacilities)
    /\ facilitiesById = Some(appScopeFacilities)
    /\ matches = <<>>
    /\ fi = 1
    /\ coordCalls = <<>>
    /\ NormIdle
    /\ ParseIdle
    /\ VisitIdle
    /\ ScopeIdle
    /\ CatalogIdle
    /\ LaterIdle

appFrame == <<apc, appFacilities, mpc, facilityIds, facilitiesById, coordCalls, exceptApp>>

\* handleForeFlightFile with a logbook that parses to flights
ImportFlights ==
    /\ apc = "mounted"
    /\ \E logbook \in AppLogbooks \ { <<>> } :
          /\ mflights' = logbook
          /\ matches' = matchAll(<<>>, logbook, 1)
          /\ fi' = Len(logbook) + 1
    /\ selectedState' = CONUS
    /\ manualStateSelection' = FALSE
    /\ UNCHANGED <<mapFilter, homeBaseId, tripMaxDistanceNm, tripMinRunwayFt,
                   tripSurfaceFilter, tripTowerFilter, appFrame>>

\* handleClearData: the saved logbook and settings are removed and the page
\* is loaded again, so it mounts with no flights and the settings it starts
\* with, and fetches the same catalog
ClearData ==
    /\ apc = "mounted"
    /\ mflights' = <<>>
    /\ matches' = <<>>
    /\ fi' = 1
    /\ selectedState' = CONUS
    /\ manualStateSelection' = FALSE
    /\ mapFilter' = "all"
    /\ homeBaseId' = None
    /\ tripMaxDistanceNm' = TRIP_DISTANCE_DEFAULT
    /\ tripMinRunwayFt' = 800
    /\ tripSurfaceFilter' = Paved
    /\ tripTowerFilter' = "any"
    /\ UNCHANGED appFrame

\* the state selector
SelectState ==
    /\ apc = "mounted"
    /\ \E code \in AppStatePool : selectedState' = code
    /\ manualStateSelection' = TRUE
    /\ UNCHANGED <<mflights, matches, fi, mapFilter, homeBaseId, tripMaxDistanceNm,
                   tripMinRunwayFt, tripSurfaceFilter, tripTowerFilter, appFrame>>

\* the state with the largest coverage ratio among those with a visit, the
\* first such in Map order; US when there is none
RECURSIVE BestState(_, _, _)
BestState(states, best, bestRatio) ==
    IF states = <<>> THEN best
    ELSE LET value == coverageByState(Head(states))
         IN  IF value.total = 0 \/ value.visited = 0
             THEN BestState(Tail(states), best, bestRatio)
             ELSE IF value.ratio.num * bestRatio.den > bestRatio.num * value.ratio.den
             THEN BestState(Tail(states), Head(states), value.ratio)
             ELSE BestState(Tail(states), best, bestRatio)

\* the effect that selects the best covered state after an import
AutoSelectState ==
    /\ apc = "mounted"
    /\ Len(mflights) > 0
    /\ ~manualStateSelection
    /\ LET bestState == BestState(GroupedStates(appScopeFacilities, <<>>), US,
                                  [num |-> -1, den |-> 1])
       IN  /\ bestState # US
           /\ selectedState' = bestState
    /\ UNCHANGED <<mflights, matches, fi, manualStateSelection, mapFilter, homeBaseId,
                   tripMaxDistanceNm, tripMinRunwayFt, tripSurfaceFilter,
                   tripTowerFilter, appFrame>>

\* the buttons All, Visited, Unvisited
SetMapFilter ==
    /\ apc = "mounted"
    /\ \E filter \in {"all", "visited", "unvisited"} : mapFilter' = filter
    /\ UNCHANGED <<mflights, matches, fi, selectedState, manualStateSelection, homeBaseId,
                   tripMaxDistanceNm, tripMinRunwayFt, tripSurfaceFilter,
                   tripTowerFilter, appFrame>>

\* the home base selector, which lists the home base options
SelectHomeBase ==
    /\ apc = "mounted"
    /\ LET choices == homeBaseOptions
       IN  \E n \in 1..Len(choices) : homeBaseId' = Some(choices[n].id)
    /\ UNCHANGED <<mflights, matches, fi, selectedState, manualStateSelection, mapFilter,
                   tripMaxDistanceNm, tripMinRunwayFt, tripSurfaceFilter,
                   tripTowerFilter, appFrame>>

\* the effect that keeps homeBaseId among the home base options
HomeBaseEffect ==
    /\ apc = "mounted"
    /\ LET choices == homeBaseOptions
       IN  IF choices = <<>>
           THEN homeBaseId # None /\ homeBaseId' = None
           ELSE /\ ~(homeBaseId # None /\
                     \E n \in 1..Len(choices) : choices[n].id = ValueOf(homeBaseId))
                /\ homeBaseId' = Some(choices[1].id)
    /\ UNCHANGED <<mflights, matches, fi, selectedState, manualStateSelection, mapFilter,
                   tripMaxDistanceNm, tripMinRunwayFt, tripSurfaceFilter,
                   tripTowerFilter, appFrame>>

\* the controls of the trip planner
SetTripMaxDistanceNm ==
    /\ apc = "mounted"
    /\ \E value \in TripDistancePool : tripMaxDistanceNm' = value
    /\ UNCHANGED <<mflights, matches, fi, selectedState, manualStateSelection, mapFilter,
                   homeBaseId, tripMinRunwayFt, tripSurfaceFilter, tripTowerFilter, appFrame>>

SetTripMinRunwayFt ==
    /\ apc = "mounted"
    /\ \E value \in TripRunwayPool : tripMinRunwayFt' = value
    /\ UNCHANGED <<mflights, matches, fi, selectedState, manualStateSelection, mapFilter,
                   homeBaseId, tripMaxDistanceNm, tripSurfaceFilter, tripTowerFilter, appFrame>>

SetTripSurfaceFilter ==
    /\ apc = "mounted"
    /\ \E value \in TripSurfacePool : tripSurfaceFilter' = value
    /\ UNCHANGED <<mflights, matches, fi, selectedState, manualStateSelection, mapFilter,
                   homeBaseId, tripMaxDistanceNm, tripMinRunwayFt, tripTowerFilter, appFrame>>

SetTripTowerFilter ==
    /\ apc = "mounted"
    /\ \E value \in TripTowerFilter : tripTowerFilter' = value
    /\ UNCHANGED <<mflights, matches, fi, selectedState, manualStateSelection, mapFilter,
                   homeBaseId, tripMaxDistanceNm, tripMinRunwayFt, tripSurfaceFilter, appFrame>>

NextApp ==
    \/ ImportFlights
    \/ ClearData
    \/ SelectState
    \/ AutoSelectState
    \/ SetMapFilter
    \/ HomeBaseEffect
    \/ SelectHomeBase
    \/ SetTripMaxDistanceNm
    \/ SetTripMinRunwayFt
    \/ SetTripSurfaceFilter
    \/ SetTripTowerFilter

SpecApp == InitApp /\ [][NextApp]_vars

-----------------------------------------------------------------------------
(* Two calls of computeFacilityMatches for two logbooks over one catalog,   *)
(* their loops interleaved flight by flight, and reads of the returned     *)
(* Maps by computeVisitedSet and computeFrequency.                         *)

MaxRunFlights == 2

RunFlightPool ==
    { Flight(<<"K","S","F","O">>, <<"K","S","Q","L">>, <<>>),
      Flight(CoordinateNearMOD, <<"3","7",".","5","/","-","1","2","2",".","2">>, <<Note>>) }

RunCatalogPool ==
    { [ids |-> {SFO, SQL, L54, MOD}, byId |-> Some(<<FacSFO, FacSQL, FacL54, FacMOD>>)],
      [ids |-> {SQL, L54}, byId |-> Some(<<FacSFO, FacSQL, FacL54>>)] }

Calls == {1, 2}

InitRuns ==
    /\ rpc = "running"
    /\ runFlights \in [Calls -> SeqsUpTo(RunFlightPool, MaxRunFlights)]
    /\ runMatches = [call \in Calls |-> <<>>]
    /\ runAt = [call \in Calls |-> 1]
    /\ runReturned = [call \in Calls |-> None]
    /\ runReads = [call \in Calls |-> FALSE]
    /\ mpc = "idle"
    /\ mflights = <<>>
    /\ \E catalog \in RunCatalogPool :
          /\ facilityIds = catalog.ids
          /\ facilitiesById = catalog.byId
    /\ matches = <<>>
    /\ fi = 0
    /\ coordCalls = <<>>
    /\ NormIdle
    /\ ParseIdle
    /\ VisitIdle
    /\ ScopeIdle
    /\ CatalogIdle
    /\ AppIdle
    /\ StoreIdle
    /\ StatsIdle
    /\ MountIdle

runFrame == <<mpc, mflights, facilityIds, facilitiesById, matches, fi, coordCalls, exceptRuns>>

\* one iteration of the loop over flights of one call
RunFlight ==
    /\ rpc = "running"
    /\ \E call \in Calls :
          /\ runAt[call] <= Len(runFlights[call])
          /\ runMatches' = [runMatches EXCEPT ![FreshMap(call)] =
                               matchFlight(runMatches[FreshMap(call)],
                                           runFlights[call][runAt[call]])]
          /\ runAt' = [runAt EXCEPT ![call] = @ + 1]
    /\ UNCHANGED <<rpc, runFlights, runReturned, runReads, runFrame>>

\* return matches
RunReturn ==
    /\ rpc = "running"
    /\ \E call \in Calls :
          /\ runAt[call] > Len(runFlights[call])
          /\ runReturned[call] = None
          /\ runReturned' = [runReturned EXCEPT ![call] = Some(runMatches[FreshMap(call)])]
    /\ UNCHANGED <<rpc, runFlights, runMatches, runAt, runReads, runFrame>>

\* computeVisitedSet and computeFrequency on a returned Map
RunRead ==
    /\ rpc = "running"
    /\ \E call \in Calls, opts \in OptionsPool :
          /\ runReturned[call] # None
          /\ ~runReads[call]
          /\ runReturned' = [runReturned EXCEPT ![call] =
                                Some(MatchesAfterRead(ValueOf(runReturned[call]), opts))]
          /\ runReads' = [runReads EXCEPT ![call] = TRUE]
    /\ UNCHANGED <<rpc, runFlights, runMatches, runAt, runFrame>>

NextRuns == RunFlight \/ RunReturn \/ RunRead

SpecRuns == InitRuns /\ [][NextRuns]_vars

-----------------------------------------------------------------------------
(* Local persistence: saves, loads and clears of the logbook, one after    *)
(* the other, and saves of the settings.  IndexedDB works or fails at each *)
(* request.                                                                *)

MaxSaves == 2

CsvPool == { <<"a">>, <<"b">> }

InitStore ==
    /\ tpc = "ready"
    /\ idb = None
    /\ ls = EmptyLocalStorage
    /\ saveCount = 0
    /\ lastSaved = None
    /\ cleared = FALSE
    /\ lastOp = "none"
    /\ loaded = None
    /\ NormIdle
    /\ ParseIdle
    /\ MatchIdle
    /\ VisitIdle
    /\ ScopeIdle
    /\ CatalogIdle
    /\ AppIdle
    /\ RunsIdle
    /\ StatsIdle
    /\ MountIdle

\* saveSavedCsv(csvText)
SaveSavedCsv ==
    /\ tpc = "ready"
    /\ saveCount < MaxSaves
    /\ \E csvText \in CsvPool, idbWorks \in BOOLEAN :
          LET payload == [csvText |-> csvText, savedAt |-> saveCount + 1]
          IN  /\ IF idbWorks
                 THEN idb' = Some(payload) /\ ls' = ls
                 ELSE idb' = idb /\ ls' = FallbackWrite(ls, payload)
              /\ lastSaved' = Some(payload)
    /\ saveCount' = saveCount + 1
    /\ cleared' = FALSE
    /\ lastOp' = "save"
    /\ UNCHANGED <<tpc, loaded, exceptStore>>

\* loadSavedCsv()
LoadSavedCsv ==
    /\ tpc = "ready"
    /\ \E idbWorks \in BOOLEAN : loaded' = loadSavedCsv(idbWorks)
    /\ lastOp' = "load"
    /\ UNCHANGED <<tpc, idb, ls, saveCount, lastSaved, cleared, exceptStore>>

\* clearAllLocalData up to its await: clearSavedCsv()
ClearSavedCsv ==
    /\ tpc = "ready"
    /\ tpc' = "clearing"
    /\ \E idbWorks \in BOOLEAN : idb' = IF idbWorks THEN None ELSE idb
    /\ ls' = [ls EXCEPT !.foreflight_csv = None]
    /\ UNCHANGED <<saveCount, lastSaved, cleared, lastOp, loaded, exceptStore>>

\* clearAllLocalData after its await: the four settings are removed
ClearSettings ==
    /\ tpc = "clearing"
    /\ tpc' = "ready"
    /\ ls' = [ls EXCEPT !.dot_radius = None, !.selected_state = None,
                        !.home_base = None, !.map_filter = None]
    /\ lastSaved' = None
    /\ cleared' = TRUE
    /\ lastOp' = "clear"
    /\ UNCHANGED <<idb, saveCount, loaded, exceptStore>>

SaveDotRadius ==
    /\ tpc = "ready"
    /\ ls' = [ls EXCEPT !.dot_radius = Some(3)]
    /\ lastOp' = "setting"
    /\ UNCHANGED <<tpc, idb, saveCount, lastSaved, cleared, loaded, exceptStore>>

SaveSelectedState ==
    /\ tpc = "ready"
    /\ ls' = [ls EXCEPT !.selected_state = Some(CONUS)]
    /\ lastOp' = "setting"
    /\ UNCHANGED <<tpc, idb, saveCount, lastSaved, cleared, loaded, exceptStore>>

\* saveHomeBase(value): null removes the key
SaveHomeBase ==
    /\ tpc = "ready"
    /\ \E value \in {None, Some(SQL)} : ls' = [ls EXCEPT !.home_base = value]
    /\ lastOp' = "setting"
    /\ UNCHANGED <<tpc, idb, saveCount, lastSaved, cleared, loaded, exceptStore>>

SaveMapFilter ==
    /\ tpc = "ready"
    /\ ls' = [ls EXCEPT !.map_filter = Some("visited")]
    /\ lastOp' = "setting"
    /\ UNCHANGED <<tpc, idb, saveCount, lastSaved, cleared, loaded, exceptStore>>

NextStore ==
    \/ SaveSavedCsv
    \/ LoadSavedCsv
    \/ ClearSavedCsv
    \/ ClearSettings
    \/ SaveDotRadius
    \/ SaveSelectedState
    \/ SaveHomeBase
    \/ SaveMapFilter

SpecStore == InitStore /\ [][NextStore]_vars

-----------------------------------------------------------------------------
(* Properties of the normalizer *)

\* C1: normalizeFacilityId is idempotent: normalizing the result of a
\* normalization gives that result again, for every input string.
C1_Idempotent ==
    npc = "done" => renormalized = normalized

\* the cleaned token, stated without the code's steps: the upper-cased input
\* from its first to its last character of A-Z, 0-9 (empty if it has none)
CleanedToken(t) ==
    LET u == toUpperCase(t)
        idx == { i \in 1..Len(u) : u[i] \in UpperAlnum }
    IN  IF idx = {} THEN <<>>
        ELSE SubSeq(u, CHOOSE i \in idx : \A j \in idx : i <= j,
                       CHOOSE i \in idx : \A j \in idx : i >= j)

\* C2: the leading K is removed exactly when the cleaned token is K followed
\* by 3 or 4 alphanumeric characters; otherwise the cleaned token is returned
\* unchanged, and an empty cleaned token gives the empty string.
C2_StripLeadingK ==
    npc = "done" =>
        LET c == CleanedToken(token)
            body == IF c = <<>> THEN <<>> ELSE Tail(c)
            fires == /\ c # <<>>
                     /\ c[1] = "K"
                     /\ Len(body) \in {3, 4}
                     /\ \A i \in 1..Len(body) : body[i] \in UpperAlnum
        IN  /\ (c = <<>> => normalized = <<>>)
            /\ (fires => normalized = body)
            /\ (~fires => normalized = c)

\* C2 witness: a padded lower-case k-code whose K is removed, and a K-code
\* with a five-character body that is kept
C2_Witness_Strip ==
    /\ npc = "done"
    /\ token = <<" ", "k", "7", "A", "K", "-">>
    /\ normalized = <<"7", "A", "K">>

\* C3: a facility identifier (2 to 4 letters and digits, nothing else) is
\* never classified as a coordinate token.
C3_FacilityIdNotCoordinate ==
    (/\ npc = "done"
     /\ Len(token) \in 2..4
     /\ \A i \in 1..Len(token) : token[i] \in UpperAlnum)
        => coordinateLike = FALSE

-----------------------------------------------------------------------------
(* Properties of the parser *)

\* a row mentions one of the aliases in some cell, after header normalization
RowMentions(row, aliases) ==
    \E c \in 1..Len(row), a \in 1..Len(aliases) :
        normalizeHeaderCell(row[c]) = aliases[a]

\* a row with an alias of date, of from and of to
IsFlightsHeader(row) ==
    /\ RowMentions(row, DATE_HEADER_ALIASES)
    /\ RowMentions(row, FROM_HEADER_ALIASES)
    /\ RowMentions(row, TO_HEADER_ALIASES)

HasFlightsHeader(data) == \E r \in 1..Len(data) : IsFlightsHeader(data[r])

IsStopRow(j) ==
    /\ j > headerIndex
    /\ \/ isSectionHeader(rows[j])
       \/ /\ j - 2 > headerIndex
          /\ \A k \in (j - 2)..j : isRowEmpty(rows[k])

StopIndex ==
    LET stops == { j \in 1..Len(rows) : IsStopRow(j) }
    IN  IF stops = {} THEN Len(rows) + 1
        ELSE CHOOSE j \in stops : \A k \in stops : j <= k

\* the blank rows directly before row j, back to the header or a data row
RECURSIVE BlankRunBefore(_)
BlankRunBefore(j) ==
    IF j - 1 > headerIndex /\ isRowEmpty(rows[j - 1])
    THEN 1 + BlankRunBefore(j - 1)
    ELSE 0

Scanning == ppc \in {"scan", "done"} /\ error = Undefined

\* C6: the scan stops at the first section header or third consecutive blank
\* row; no row at or after it yields a FlightRow; one or two blank rows
\* before a data row do not stop the scan, and the blank-run counter is the
\* length of the current run of blank rows, zero again after a data row.
C6_ScanStops ==
    Scanning =>
        /\ ri <= StopIndex
        /\ (ppc = "done" => ri = StopIndex)
        /\ \A n \in 1..Len(pushedAt) : pushedAt[n] < StopIndex
        /\ (ppc = "scan" => emptyRun = BlankRunBefore(ri))
        /\ (ppc = "scan" /\ ri - 1 > headerIndex /\ ~isRowEmpty(rows[ri - 1])
                => emptyRun = 0)

\* C6 witness: two blank rows, a data row that is kept, then a section header
\* where the scan has stopped
C6_Witness_BlankRunThenData ==
    /\ ppc = "done"
    /\ error = Undefined
    /\ rows = << HeaderRow, BlankRow, BlankRow, DataRow, SectionRow >>
    /\ pushedAt = << 4 >>
    /\ ri = 5

\* the elements of a finite set of integers, ascending
RECURSIVE Ascending(_)
Ascending(S) ==
    IF S = {} THEN <<>>
    ELSE LET m == CHOOSE x \in S : \A y \in S : x <= y
         IN  <<m>> \o Ascending(S \ {m})

\* the rows that yield flights: not blank, after the header, before the stop
KeptRows ==
    Ascending({ j \in 1..Len(rows) :
                    j > headerIndex /\ j < StopIndex /\ ~isRowEmpty(rows[j]) })

\* the cells of the text columns of a row that pass Keep, in column order
TextCells(row, Keep(_)) ==
    LET header == NormalizedRow(rows[headerIndex])
        cols == { c \in 1..Len(header) :
                    IsTextHeader(header[c]) /\ c <= Len(row) /\ Keep(row[c]) }
        order == Ascending(cols)
    IN  [k \in 1..Len(order) |-> row[order[k]]]

RawCell(row, col) == IF col <= Len(row) THEN row[col] ELSE <<>>

FlightsAre(Keep(_)) ==
    /\ pushedAt = KeptRows
    /\ Len(flights) = Len(KeptRows)
    /\ \A n \in 1..Len(flights) :
          LET row == rows[KeptRows[n]]
          IN  /\ flights[n].from = RawCell(row, fromIndex)
              /\ flights[n].to = RawCell(row, toIndex)
              /\ flights[n].date = RawCell(row, dateIndex)
              /\ flights[n].textFields = TextCells(row, Keep)

\* C7 (as stated): every non-blank row between header and stop yields one
\* FlightRow, in order, with the raw from/to/date cells and, as textFields,
\* the non-empty cells of the text columns.
C7_OneFlightPerRow_Original ==
    (ppc = "done" /\ error = Undefined) =>
        FlightsAre(LAMBDA cell : cell # <<>>)

\* C7 (amended): as stated, except that textFields holds the cells of the
\* text columns that are not blank, that is not empty after trimming
\* white space: a cell of spaces only is left out.
C7_OneFlightPerRow ==
    (ppc = "done" /\ error = Undefined) =>
        FlightsAre(LAMBDA cell : trim(cell) # <<>>)

\* C7 witness: under the alias header a full row, whose Route cell is kept,
\* and a short row; under the plain header the same full row, whose Remarks
\* cell of one space is left out
C7_Witness_TextFields ==
    /\ ppc = "done"
    /\ error = Undefined
    /\ \/ /\ rows = << AliasHeaderRow, DataRow, ShortRow >>
          /\ Len(flights) = 2
          /\ flights[1].textFields = << <<"h","i">> >>
          /\ flights[1].from = <<"K","L","A","X">>
          /\ flights[2].from = <<>>
       \/ /\ rows = << HeaderRow, DataRow >>
          /\ Len(flights) = 1
          /\ flights[1].textFields = <<>>

\* col is where the alias list resolves in header: it holds the first alias,
\* in list order, present in the header, and is the first column holding it
ResolvesTo(header, aliases, col) ==
    /\ col \in 1..Len(header)
    /\ \E a \in 1..Len(aliases) :
          /\ header[col] = aliases[a]
          /\ \A c \in 1..(col - 1) : header[c] # aliases[a]
          /\ \A b \in 1..(a - 1) : \A c \in 1..Len(header) : header[c] # aliases[b]

\* C8: the flights header is the first row with an alias of date, from and
\* to; each column is the column of the first alias in list order found in
\* that header; with no such row the result is "No Flights Table found.".
C8_HeaderResolution ==
    (ppc \in {"scan", "done"} /\ Len(parsed.errors) = 0) =>
        IF HasFlightsHeader(rows)
        THEN /\ headerIndex \in 1..Len(rows)
             /\ IsFlightsHeader(rows[headerIndex])
             /\ \A r \in 1..(headerIndex - 1) : ~IsFlightsHeader(rows[r])
             /\ LET header == NormalizedRow(rows[headerIndex])
                IN  /\ ResolvesTo(header, DATE_HEADER_ALIASES, dateIndex)
                    /\ ResolvesTo(header, FROM_HEADER_ALIASES, fromIndex)
                    /\ ResolvesTo(header, TO_HEADER_ALIASES, toIndex)
             /\ error = Undefined
        ELSE error = NoFlightsTable /\ flights = <<>>

\* C8 witness: an alias header (Origin, To, FROM, Flight Date) below a row
\* that is no header; from resolves to the FROM column, not to Origin
C8_Witness_AliasHeader ==
    /\ ppc = "scan"
    /\ headerIndex = 2
    /\ rows[2] = AliasHeaderRow
    /\ fromIndex = 3
    /\ toIndex = 2
    /\ dateIndex = 4

-----------------------------------------------------------------------------
(* Properties of the coverage engine *)

Count(m, id, source) == IF id \in DOMAIN m THEN m[id][source] ELSE 0

\* a step of the loop over flights
FlightStep == mpc = "loop" /\ fi' = fi + 1

\* the calls of addCoordinateEndpointMatch made in this step
NewCoordCalls == SubSeq(coordCalls', Len(coordCalls) + 1, Len(coordCalls'))

\* an endpoint that normalizes to a facility of the set: that facility gets
\* one more under source, no other facility changes under source, and no
\* coordinate resolution is made for source
CreditedById(raw, source) ==
    LET id == normalizeFacilityId(raw)
    IN  id \in facilityIds =>
            /\ Count(matches', id, source) = Count(matches, id, source) + 1
            /\ \A other \in facilityIds \ {id} :
                  Count(matches', other, source) = Count(matches, other, source)
            /\ \A n \in 1..Len(NewCoordCalls) : NewCoordCalls[n].source # source

\* C9: for every flight whose from normalizes to an id of the facility set,
\* that facility's endpoint_from grows by exactly one, no other facility's
\* endpoint_from changes and no coordinate resolution is attempted for that
\* endpoint; likewise for to and endpoint_to.
C9_EndpointById ==
    [][FlightStep =>
        /\ CreditedById(mflights[fi].from, "endpoint_from")
        /\ CreditedById(mflights[fi].to, "endpoint_to")]_vars

\* C9 witness: the first flight left KSFO, SFO is a facility, and SFO has one
\* endpoint_from with no coordinate resolution for that endpoint
C9_Witness_FromSFO ==
    /\ mpc = "loop"
    /\ fi = 2
    /\ mflights[1].from = <<"K","S","F","O">>
    /\ SFO \in facilityIds
    /\ Count(matches, SFO, "endpoint_from") = 1
    /\ \A n \in 1..Len(coordCalls) : coordCalls[n].source # "endpoint_from"

\* the facilities a coordinate may resolve to: in the set, both coordinates
Candidates ==
    IF facilitiesById = None THEN {}
    ELSE { f \in Range(ValueOf(facilitiesById)) :
              f.id \in facilityIds /\ f.latitude # None /\ f.longitude # None }

\* an endpoint that does not normalize to a facility of the set: when it
\* parses as a coordinate and the smallest distance to a candidate is at
\* most 10 nm, one candidate at that smallest distance gets one more under
\* source and nothing else changes under source; otherwise nothing changes
CreditedByCoordinate(raw, source) ==
    LET id == normalizeFacilityId(raw)
        point == parseCoordinateEndpoint(raw)
        Distance(f) == distanceNm(ValueOf(point), PointOf(f))
        within == /\ point # None
                  /\ \E f \in Candidates : Distance(f) <= 10 * 1000
    IN  id \notin facilityIds =>
            IF within
            THEN \E f \in Candidates :
                    /\ \A g \in Candidates : Distance(f) <= Distance(g)
                    /\ Count(matches', f.id, source) = Count(matches, f.id, source) + 1
                    /\ \A other \in facilityIds \ {f.id} :
                          Count(matches', other, source) = Count(matches, other, source)
            ELSE \A other \in facilityIds :
                    Count(matches', other, source) = Count(matches, other, source)

\* C10: when from (or to) does not normalize to a facility of the set and
\* the raw string parses as a coordinate, the endpoint is credited to the
\* facility at minimum great-circle distance among those with both
\* coordinates, if that distance is at most 10 nm; otherwise to no facility.
C10_EndpointByCoordinate ==
    [][FlightStep =>
        /\ CreditedByCoordinate(mflights[fi].from, "endpoint_from")
        /\ CreditedByCoordinate(mflights[fi].to, "endpoint_to")]_vars

\* C10 witness: from is 37.7,-122.3; SFO, first in the map, is 6.0 nm away
\* and MOD, last in the map, 4.8 nm: MOD has the endpoint_from, SFO none
C10_Witness_NearestMOD ==
    /\ mpc = "loop"
    /\ fi = 2
    /\ mflights[1].from = CoordinateNearMOD
    /\ facilityIds = {SFO, SQL, L54, MOD}
    /\ Count(matches, MOD, "endpoint_from") = 1
    /\ Count(matches, SFO, "endpoint_from") = 0
    /\ coordCalls[1].source = "endpoint_from"

\* the occurrences <<flight, field, token>> in the text fields of the first n
\* flights of a token that is not coordinate-like and normalizes to id
NoteTokens(id, n) ==
    UNION { UNION { { <<i, j, k>> : k \in { k \in 1..Len(tokenizeText(mflights[i].textFields[j])) :
                          LET tk == tokenizeText(mflights[i].textFields[j])[k]
                          IN  ~isCoordinateToken(tk) /\ normalizeFacilityId(tk) = id } }
                    : j \in 1..Len(mflights[i].textFields) }
            : i \in 1..n }

\* C11: for every facility f of the set, notes_match[f] is the number of
\* tokens, over all text fields of all flights, that are not coordinate-like
\* and normalize to f; a coordinate-like token increments no counter, and no
\* entry exists for an id outside the set.
C11_NotesCount ==
    /\ \A f \in facilityIds :
          Count(matches, f, "notes_match") = Cardinality(NoteTokens(f, fi - 1))
    /\ \A id \in DOMAIN matches : id \in facilityIds

\* C11 witness: the remarks "KSQL S50" and "(PAO|pao)" against the set
\* {PAO, S50}: PAO has two notes matches, and S50, which reads as a
\* coordinate, has no entry
C11_Witness_CoordinateLikeId ==
    /\ mpc = "done"
    /\ mflights = <<PatternFlight>>
    /\ facilityIds = {PAO, S50}
    /\ Count(matches, PAO, "notes_match") = 2
    /\ S50 \notin DOMAIN matches

Sources == {"endpoint_from", "endpoint_to", "notes_match"}

\* the sum of what each of the first n flights adds when matched on its own
RECURSIVE AddedAlone(_, _, _)
AddedAlone(id, source, n) ==
    IF n = 0 THEN 0
    ELSE Count(matchFlight(<<>>, mflights[n]), id, source) + AddedAlone(id, source, n - 1)

\* a flight whose from, to and some note token resolve to one facility of
\* the set raises each of the three counters of that facility
CreditedThrice ==
    LET flight == mflights[fi]
        id == normalizeFacilityId(flight.from)
        named == Cardinality(NoteTokens(id, fi)) - Cardinality(NoteTokens(id, fi - 1))
    IN  (id \in facilityIds /\ normalizeFacilityId(flight.to) = id /\ named > 0) =>
            /\ Count(matches', id, "endpoint_from") = Count(matches, id, "endpoint_from") + 1
            /\ Count(matches', id, "endpoint_to") = Count(matches, id, "endpoint_to") + 1
            /\ Count(matches', id, "notes_match") = Count(matches, id, "notes_match") + named

\* C12: matching performs no per-flight deduplication: every counter is the
\* sum over the flight list of what each flight adds on its own, so n
\* identical flights add n times what one adds; a flight whose from, to and
\* a note token resolve to the same facility adds to each of its three
\* counters.
C12_NoDeduplication ==
    /\ [](\A f \in facilityIds : \A source \in Sources :
              Count(matches, f, source) = AddedAlone(f, source, fi - 1))
    /\ [][FlightStep => CreditedThrice]_vars

\* C12 witness: the pattern flight twice; SQL, named once as origin, once as
\* destination and once in the remarks of each, has two of every counter
C12_Witness_TwicePattern ==
    /\ mpc = "done"
    /\ mflights = <<PatternFlight, PatternFlight>>
    /\ SQL \in facilityIds
    /\ \A source \in Sources : Count(matches, SQL, source) = 2

-----------------------------------------------------------------------------
(* Properties of computeVisitedSet and computeFrequency *)

\* the sum of the counters the options select
SelectedSum(counts, opts) ==
    (IF opts.useEndpoints /\ ~opts.arrivalsOnly THEN counts.endpoint_from ELSE 0)
        + (IF opts.useEndpoints THEN counts.endpoint_to ELSE 0)
        + (IF opts.includeNotes THEN counts.notes_match ELSE 0)

\* C13: computeVisitedSet returns exactly the ids whose selected-counter sum
\* is greater than zero, for all eight option combinations; with
\* useEndpoints and includeNotes both false the visited set is empty.
C13_VisitedSet ==
    visited # None =>
        /\ ValueOf(visited) = { id \in DOMAIN vmatches : SelectedSum(vmatches[id], options) > 0 }
        /\ (~options.useEndpoints /\ ~options.includeNotes) => ValueOf(visited) = {}

\* C13 witness: arrivals only, without notes: SFO, with a departure and a
\* note but no arrival, is not visited; SQL, with an arrival, is
C13_Witness_ArrivalsOnly ==
    /\ visited # None
    /\ options = [includeNotes |-> FALSE, useEndpoints |-> TRUE, arrivalsOnly |-> TRUE]
    /\ DOMAIN vmatches = {SFO, SQL}
    /\ vmatches[SFO] = [endpoint_from |-> 1, endpoint_to |-> 0, notes_match |-> 1]
    /\ vmatches[SQL].endpoint_to = 1
    /\ ValueOf(visited) = {SQL}

\* the counters the options select
Selected(opts) ==
    (IF opts.useEndpoints /\ ~opts.arrivalsOnly THEN {"endpoint_from"} ELSE {})
        \cup (IF opts.useEndpoints THEN {"endpoint_to"} ELSE {})
        \cup (IF opts.includeNotes THEN {"notes_match"} ELSE {})

\* C14: each entry returned by computeFrequency has the counters not
\* selected by the options set to zero, the selected counters equal to the
\* input counters, and total equal to the sum of the three returned
\* counters; the ids with total greater than zero are exactly
\* computeVisitedSet of the same input and options.
C14_Frequency ==
    frequency # None =>
        LET totals == ValueOf(frequency)
        IN  /\ DOMAIN totals = DOMAIN vmatches
            /\ \A id \in DOMAIN totals :
                  /\ \A source \in Sources :
                        totals[id].counts[source] =
                            IF source \in Selected(options) THEN vmatches[id][source] ELSE 0
                  /\ totals[id].total = totals[id].counts.endpoint_from
                                          + totals[id].counts.endpoint_to
                                          + totals[id].counts.notes_match
            /\ visited # None =>
                  { id \in DOMAIN totals : totals[id].total > 0 } = ValueOf(visited)

\* C14 witness: arrivals only with notes: the departure of SFO is zeroed in
\* the breakdown, its arrival and note are kept, and the total is their sum
C14_Witness_ZeroedDeparture ==
    /\ vpc = "done"
    /\ options = [includeNotes |-> TRUE, useEndpoints |-> TRUE, arrivalsOnly |-> TRUE]
    /\ SFO \in DOMAIN vmatches
    /\ vmatches[SFO] = [endpoint_from |-> 1, endpoint_to |-> 1, notes_match |-> 1]
    /\ ValueOf(frequency)[SFO] =
          [total |-> 2, counts |-> [endpoint_from |-> 0, endpoint_to |-> 1, notes_match |-> 1]]
    /\ SFO \in ValueOf(visited)

-----------------------------------------------------------------------------
(* Properties of buildScopeFacilities *)

Ids(list) == [ n \in 1..Len(list) |-> list[n].id ]

Hubs == {SFO, LAX, SAN}

\* the list without its hubs when exclusion is enabled
WithoutHubs(list) == SelectSeq(list, LAMBDA f : ~(bravoExcluded /\ f.id \in Hubs))

FirstSeen(list) == { n \in 1..Len(list) : \A m \in 1..(n - 1) : list[m].id # list[n].id }

\* the ids of the list, each once, in first-seen order
DistinctIds(list) ==
    LET first == Ascending(FirstSeen(list))
    IN  [ n \in 1..Len(first) |-> list[first[n]].id ]

Considered ==
    SelectSeq(Combined(scope, publicFacilities, ourFacilities),
              LAMBDA f : ~(bravoExcluded /\ f.id \in BRAVO_EXCLUSIONS))

\* C16: for every scope the returned list holds each id at most once, in
\* first-seen order; an entry whose id occurs more than once keeps the
\* fields of the first-seen entry (name, source, type), and only its
\* coordinates are taken from a later entry, and only when the first-seen
\* entry has no latitude.
C16_FirstSeenPrecedence ==
    spc = "done" =>
        LET first == Ascending(FirstSeen(Considered))
        IN  /\ Len(scopeFacilities) = Len(first)
            /\ \A n \in 1..Len(first) :
                  LET kept == scopeFacilities[n]
                      seen == Considered[first[n]]
                  IN  /\ kept.id = seen.id
                      /\ kept.name = seen.name
                      /\ kept.source = seen.source
                      /\ kept.type = seen.type
                      /\ seen.latitude # None =>
                            kept.latitude = seen.latitude /\ kept.longitude = seen.longitude
                      /\ seen.latitude = None =>
                            \/ kept.latitude = None /\ kept.longitude = seen.longitude
                            \/ \E m \in (first[n] + 1)..Len(Considered) :
                                  /\ Considered[m].id = seen.id
                                  /\ kept.latitude = Considered[m].latitude
                                  /\ kept.longitude = Considered[m].longitude

-----------------------------------------------------------------------------
(* Properties of parseFacilitiesMaster *)

\* C17: every facility returned by parseFacilitiesMaster has a non-empty id,
\* and no id appears more than once in the returned list, for any input
\* rows, including rows whose raw ids differ but normalize to the same id.
C17_CatalogIdsUnique ==
    cpc = "done" =>
        /\ \A n \in 1..Len(masterFacilities) : masterFacilities[n].id # <<>>
        /\ \A n, m \in 1..Len(masterFacilities) : masterFacilities[n].id = masterFacilities[m].id => n = m

\* C18: the longestRunwayFt of every returned facility is undefined or a
\* non-negative number: a negative or non-numeric longest_runway_ft cell
\* yields undefined, never a negative value.
C18_RunwayNonNegative ==
    cpc = "done" =>
        \A n \in 1..Len(masterFacilities) :
            masterFacilities[n].longestRunwayFt = None \/ ValueOf(masterFacilities[n].longestRunwayFt) >= 0

-----------------------------------------------------------------------------
(* Properties of the page *)

\* the facilities of the selected region that are in the visited set
VisitedOfRegion ==
    LET region == selectedFacilities
        visitedIds == visitedSet
    IN  { n \in 1..Len(region) : region[n].id \in visitedIds }

\* C19: for every flight list, region selection and map filter setting, the
\* displayed coverage ratio lies in [0,1] and equals the number of facilities
\* of the selected region that are in the visited set divided by the number
\* of facilities of the selected region, and is 0 when the region has no
\* facilities; the per-state ratios satisfy the same equation.
C19_CoverageRatio ==
    apc = "mounted" =>
        LET ratio == coverage.ratio
            region == selectedFacilities
            list == appScopeFacilities
            visitedIds == visitedSet
        IN
        /\ 0 <= ratio.num /\ ratio.num <= ratio.den
        /\ ratio.num * Len(region) = Cardinality(VisitedOfRegion) * ratio.den
        /\ Len(region) = 0 => ratio.num = 0
        /\ \A state \in Range(GroupedStates(list, <<>>)) :
              LET value == coverageByState(state)
                  ofState == { n \in 1..Len(list) : StateOf(list[n]) = state }
                  visitedOfState == { n \in ofState : list[n].id \in visitedIds }
              IN  /\ 0 <= value.ratio.num /\ value.ratio.num <= value.ratio.den
                  /\ value.ratio.num * Cardinality(ofState)
                        = Cardinality(visitedOfState) * value.ratio.den

\* the planned length of a runway of lengthFt tenths of a foot, 75% of it
\* rounded to a foot, is at least minimum feet
PlannedAtLeast(lengthFt, minimum) ==
    lengthFt # None /\ 3 * ValueOf(lengthFt) >= 40 * minimum - 20

\* the facility lies within the chosen maximum distance of the home base
WithinReach(facility) ==
    /\ homeBaseFacility # None
    /\ HaversineTable[<< ValueOf(ValueOf(homeBaseFacility).latitude),
                         ValueOf(facility.latitude),
                         Abs(ValueOf(facility.longitude)
                               - ValueOf(ValueOf(homeBaseFacility).longitude)) >>]
          <= tripMaxDistanceNm * 1000

\* C20: every row of the trip-planner list is a facility of the selected
\* region that is not in the visited set, has coordinates, lies within the
\* chosen maximum distance of the home base, has a planned runway length of
\* at least the chosen minimum when that minimum is above zero, matches the
\* surface filter when it is not any, is towered when the filter is towered
\* and is not towered when the filter is nontowered; the list is empty when
\* there is no home base with coordinates.
C20_TripPlannerRows ==
    apc = "mounted" =>
        LET tripRows == tripPlannerRows
            region == selectedFacilities
            visitedIds == visitedSet
        IN
        /\ \A n \in 1..Len(tripRows) :
              LET facility == tripRows[n].facility
              IN  /\ \E k \in 1..Len(region) : region[k] = facility
                  /\ facility.id \notin visitedIds
                  /\ facility.latitude # None /\ facility.longitude # None
                  /\ WithinReach(facility)
                  /\ tripMinRunwayFt > 0 =>
                        PlannedAtLeast(facility.longestRunwayFt, tripMinRunwayFt)
                  /\ tripSurfaceFilter # AnySurface =>
                        facility.surfaceCategory = Some(tripSurfaceFilter)
                  /\ tripTowerFilter = "towered" => facility.towered = Some(TRUE)
                  /\ tripTowerFilter = "nontowered" => facility.towered # Some(TRUE)
        /\ ( \/ homeBaseFacility = None
             \/ ValueOf(homeBaseFacility).latitude = None
             \/ ValueOf(homeBaseFacility).longitude = None ) => tripRows = <<>>

\* C20 witness: with flights imported and a home base chosen, the list has a
\* row, and a facility of the region that is not visited, is within reach and
\* has runway enough is left out for its surface.
C20_Witness_SurfaceLeftOut ==
    /\ apc = "mounted"
    /\ mflights # <<>>
    /\ tripPlannerRows # <<>>
    /\ tripSurfaceFilter # AnySurface
    /\ \E k \in 1..Len(unvisitedInScope) :
          LET facility == unvisitedInScope[k]
              tripRows == tripPlannerRows
          IN  /\ facility.latitude # None /\ facility.longitude # None
              /\ WithinReach(facility)
              /\ tripMinRunwayFt > 0 =>
                    PlannedAtLeast(facility.longestRunwayFt, tripMinRunwayFt)
              /\ facility.surfaceCategory # Some(tripSurfaceFilter)
              /\ \A n \in 1..Len(tripRows) : tripRows[n].facility # facility

\* C21: the trip-planner list is totally ordered: of two consecutive rows a
\* then b, a's distance is smaller, or the distances are equal and a's
\* planned runway length (0 when it has none) is larger, or both are equal
\* and a's id sorts before b's id.
C21_TripOrder ==
    apc = "mounted" =>
        LET tripRows == tripPlannerRows
        IN  \A n \in 1..(Len(tripRows) - 1) :
               LET a == tripRows[n]
                   b == tripRows[n + 1]
                   aRunway == PlannedOrZero(a.facility)
                   bRunway == PlannedOrZero(b.facility)
               IN  \/ a.distanceNm < b.distanceNm
                   \/ a.distanceNm = b.distanceNm /\ aRunway > bRunway
                   \/ /\ a.distanceNm = b.distanceNm
                      /\ aRunway = bRunway
                      /\ IdBefore(a.facility.id, b.facility.id)

\* C21 witness: the list holds a run of three rows at one distance after a
\* nearer row: the first of the run is ahead by its longer planned runway,
\* the second and third have equal planned lengths and follow the order of
\* their ids.
C21_Witness_TiesBroken ==
    /\ apc = "mounted"
    /\ LET tripRows == tripPlannerRows
       IN  \E n \in 2..(Len(tripRows) - 2) :
              /\ tripRows[n - 1].distanceNm < tripRows[n].distanceNm
              /\ tripRows[n].distanceNm = tripRows[n + 1].distanceNm
              /\ PlannedOrZero(tripRows[n].facility) > PlannedOrZero(tripRows[n + 1].facility)
              /\ tripRows[n + 1].distanceNm = tripRows[n + 2].distanceNm
              /\ PlannedOrZero(tripRows[n + 1].facility) = PlannedOrZero(tripRows[n + 2].facility)
              /\ IdBefore(tripRows[n + 1].facility.id, tripRows[n + 2].facility.id)

\* an endpoint that does not normalize to a facility of the set and parses
\* as a coordinate with several candidates at the smallest distance, at most
\* 10 nm: the first of them in the order of the facility map gets one more
\* under source, the others at that distance none
TieCreditedFirst(raw, source) ==
    LET id == normalizeFacilityId(raw)
        point == parseCoordinateEndpoint(raw)
        entries == ValueOf(facilitiesById)
        eligible == { k \in 1..Len(entries) :
                         /\ entries[k].id \in facilityIds
                         /\ entries[k].latitude # None
                         /\ entries[k].longitude # None }
        Distance(k) == distanceNm(ValueOf(point), PointOf(entries[k]))
        nearest == { k \in eligible : \A j \in eligible : Distance(k) <= Distance(j) }
    IN  (/\ id \notin facilityIds
         /\ facilitiesById # None
         /\ point # None
         /\ Cardinality(nearest) >= 2
         /\ \A k \in nearest : Distance(k) <= 10 * 1000) =>
            LET first == CHOOSE k \in nearest : \A j \in nearest : k <= j
            IN  /\ Count(matches', entries[first].id, source)
                      = Count(matches, entries[first].id, source) + 1
                /\ \A k \in nearest \ {first} :
                      Count(matches', entries[k].id, source)
                          = Count(matches, entries[k].id, source)

\* C25: nearest-coordinate resolution is deterministic: when several
\* candidates are at exactly the same minimum distance from a coordinate
\* endpoint, the one credited is the first in the iteration order of the
\* facility map.
C25_TieFirstEncountered ==
    [][FlightStep =>
        /\ TieCreditedFirst(mflights[fi].from, "endpoint_from")
        /\ TieCreditedFirst(mflights[fi].to, "endpoint_to")]_vars

\* C25 witness: from is 37.6N/122.3W, 6.0 nm from OAK, first in the map, and
\* 6.0 nm from PAO, second: OAK has the endpoint_from, PAO none
C25_Witness_OAKBeforePAO ==
    /\ mpc = "loop"
    /\ fi = 2
    /\ mflights[1].from = CoordinateSFO
    /\ facilityIds = {OAK, PAO, L35}
    /\ Count(matches, OAK, "endpoint_from") = 1
    /\ Count(matches, PAO, "endpoint_from") = 0

\* the sum of one counter over the entries of a match map
RECURSIVE SumOfSource(_, _, _)
SumOfSource(m, ids, source) ==
    IF ids = {} THEN 0
    ELSE LET id == CHOOSE x \in ids : TRUE
         IN  m[id][source] + SumOfSource(m, ids \ {id}, source)

-----------------------------------------------------------------------------
(* Properties of interleaved matching runs *)

-----------------------------------------------------------------------------
(* Properties of local persistence *)

\* C23: the last imported CSV is the one restored: after saveSavedCsv calls
\* with no clear since the first of them, loadSavedCsv returns the payload
\* of the most recent save, whether IndexedDB worked or not at each save and
\* at the load.
C23_LastSavedIsLoaded ==
    (tpc = "ready" /\ lastOp = "load" /\ lastSaved # None) => loaded = lastSaved

\* C24: once clearAllLocalData has completed, hasLocalSettings is false, and
\* loadSavedCsv, called before anything is saved again, returns null,
\* wherever the logbook had been stored and whether or not the IndexedDB
\* delete worked.
C24_ClearRemovesAll ==
    /\ (tpc = "ready" /\ lastOp = "clear") => ~hasLocalSettings
    /\ (tpc = "ready" /\ lastOp = "load" /\ cleared) => loaded = None

-----------------------------------------------------------------------------
(* The forEach of visitStats, one flight at a time, over logbooks whose     *)
(* flights carry parsable, unparsable and empty dates.                     *)

MaxStatFlights == 3

DateMarch5 == <<"2","0","2","4","-","0","3","-","0","5">>
DateDec31 == <<"2","0","2","3","-","1","2","-","3","1">>
DateMarch == <<"2","0","2","4","-","0","3">>
DateYear == <<"2","0","2","4">>
DateBad == <<"b","a","d">>

DatedFlight(date, from, to, textFields) ==
    [date |-> date, from |-> from, to |-> to, textFields |-> textFields]

StatFlightPool ==
    { DatedFlight(DateMarch5, <<"K","S","Q","L">>, <<"K","P","A","O">>, <<>>),
      DatedFlight(DateDec31, <<"K","S","Q","L">>, <<"K","P","A","O">>,
                  << <<"K","S","Q","L">> >>),
      DatedFlight(DateYear, <<>>, <<"s","q","l">>, <<>>),
      DatedFlight(DateMarch, <<"K","P","A","O">>, <<"K","P","A","O">>, <<>>),
      DatedFlight(DateBad, <<"K","S","Q","L">>, <<"K","P","A","O">>, <<>>),
      DatedFlight(<<>>, <<"K","P","A","O">>, <<"K","S","Q","L">>,
                  << <<"v","i","a"," ","S","Q","L"," ","3","7",".","5","N">> >>) }

StatCatalogPool == { {SQL, PAO}, {SQL} }

InitStats ==
    /\ stpc = "loop"
    /\ stats = <<>>
    /\ sti = 1
    /\ visitEvents = <<>>
    /\ mpc = "idle"
    /\ mflights \in SeqsUpTo(StatFlightPool, MaxStatFlights)
    /\ facilityIds \in StatCatalogPool
    /\ facilitiesById = None
    /\ matches = <<>>
    /\ fi = 0
    /\ coordCalls = <<>>
    /\ NormIdle
    /\ ParseIdle
    /\ VisitIdle
    /\ ScopeIdle
    /\ CatalogIdle
    /\ AppIdle
    /\ RunsIdle
    /\ StoreIdle
    /\ MountIdle

statFrame == <<matchVars, exceptStats>>

\* the ids the body of the forEach passes to addVisit, in call order
RECURSIVE visitCallsOfTokens(_, _)
visitCallsOfTokens(tks, k) ==
    IF k > Len(tks) THEN <<>>
    ELSE LET id == normalizeFacilityId(tks[k])
             rest == visitCallsOfTokens(tks, k + 1)
         IN  IF isCoordinateToken(tks[k]) \/ id = <<>> THEN rest ELSE <<id>> \o rest

RECURSIVE visitCallsOfFields(_, _)
visitCallsOfFields(fields, k) ==
    IF k > Len(fields) THEN <<>>
    ELSE visitCallsOfTokens(tokenizeText(fields[k]), 1) \o visitCallsOfFields(fields, k + 1)

visitCalls(flight) ==
    LET from == normalizeFacilityId(flight.from)
        to == normalizeFacilityId(flight.to)
    IN  (IF from # <<>> THEN <<from>> ELSE <<>>)
        \o (IF to # <<>> THEN <<to>> ELSE <<>>)
        \o visitCallsOfFields(flight.textFields, 1)

\* one iteration of flights.forEach
StatsFlight ==
    /\ stpc = "loop"
    /\ sti <= Len(mflights)
    /\ LET flight == mflights[sti]
           calls == visitCalls(flight)
       IN  /\ stats' = visitFlight(stats, flight)
           /\ visitEvents' = visitEvents \o
                 [k \in 1..Len(calls) |->
                     [id |-> calls[k], timestamp |-> parseFlightDate(flight.date)]]
    /\ sti' = sti + 1
    /\ UNCHANGED <<stpc, statFrame>>

\* return stats
StatsReturn ==
    /\ stpc = "loop"
    /\ sti > Len(mflights)
    /\ stpc' = "done"
    /\ UNCHANGED <<stats, sti, visitEvents, statFrame>>

NextStats == StatsFlight \/ StatsReturn

SpecStats == InitStats /\ [][NextStats]_vars

\* the visit events of a facility, and the timestamps of those that have one
EventsOf(id) == SelectSeq(visitEvents, LAMBDA e : e.id = id)
DatesOf(id) ==
    { ValueOf(visitEvents[k].timestamp) :
        k \in { n \in 1..Len(visitEvents) :
                  visitEvents[n].id = id /\ visitEvents[n].timestamp # None } }

StatsMatchEvents ==
    stpc \in {"loop", "done"} =>
        /\ \A id \in facilityIds : (EventsOf(id) # <<>>) <=> (PositionOf(stats, id, 1) # 0)
        /\ \A k \in 1..Len(stats) :
              LET e == stats[k]
                  ts == DatesOf(e.id)
              IN  /\ e.count = Len(EventsOf(e.id))
                  /\ (e.firstVisited = None) <=> (ts = {})
                  /\ (e.lastVisited = None) <=> (ts = {})
                  /\ ts # {} =>
                        /\ ValueOf(e.firstVisited) \in ts
                        /\ ValueOf(e.lastVisited) \in ts
                        /\ \A t \in ts : /\ ValueOf(e.firstVisited) <= t
                                         /\ t <= ValueOf(e.lastVisited)
                        /\ ValueOf(e.firstVisited) <= ValueOf(e.lastVisited)

UndatedFlightKeepsDates ==
    (stpc = "loop" /\ sti' = sti + 1 /\ parseFlightDate(mflights[sti].date) = None) =>
        /\ \A k \in 1..Len(stats) :
              /\ stats'[k].firstVisited = stats[k].firstVisited
              /\ stats'[k].lastVisited = stats[k].lastVisited
              /\ stats'[k].count >= stats[k].count
        /\ \A k \in (Len(stats) + 1)..Len(stats') :
              /\ stats'[k].firstVisited = None
              /\ stats'[k].lastVisited = None
              /\ stats'[k].count >= 1
        /\ \A n \in 1..Len(visitCalls(mflights[sti])) :
              LET id == visitCalls(mflights[sti])[n]
                  before == PositionOf(stats, id, 1)
              IN  id \in facilityIds =>
                    stats'[PositionOf(stats', id, 1)].count
                        > (IF before = 0 THEN 0 ELSE stats[before].count)

\* C26: for every facility with visit events, firstVisited is the minimum and
\* lastVisited the maximum of the parsable flight-date timestamps over all of
\* its visit events; both are null exactly when no event of the facility has
\* a parsable date; firstVisited is never later than lastVisited; and a
\* flight with an unparsable or empty date adds to the visit count of the
\* facilities it names but changes neither date of any facility.
C26_VisitDates == []StatsMatchEvents /\ [][UndatedFlightKeepsDates]_vars

\* C26 witness: the stats are returned with a facility whose first visit is
\* earlier than its last, the earlier date having come from the later
\* flight, and which also has a visit event without a date.
C26_Witness_EarlierDateLater ==
    /\ stpc = "done"
    /\ \E k \in 1..Len(stats) :
          LET events == EventsOf(stats[k].id)
          IN  /\ stats[k].firstVisited # None
              /\ ValueOf(stats[k].firstVisited) < ValueOf(stats[k].lastVisited)
              /\ \E a, b \in 1..Len(events) :
                    /\ a < b
                    /\ events[a].timestamp = stats[k].lastVisited
                    /\ events[b].timestamp = stats[k].firstVisited
              /\ \E n \in 1..Len(events) : events[n].timestamp = None

-----------------------------------------------------------------------------
(* Properties of the two visit computations of the page *)

\* C28: every facility in the visited set of the page (endpoints and notes
\* enabled, arrivalsOnly off) has a visitStats entry with a count of at
\* least one, equal to the sum of its three match counters, and is offered
\* as a home-base option; this includes the facilities credited through a
\* coordinate endpoint.
C28_VisitedHaveStats ==
    apc = "mounted" =>
        LET statList == visitStats
            optionList == homeBaseOptions
        IN  \A id \in visitedSet :
              LET at == PositionOf(statList, id, 1)
              IN  /\ at # 0
                  /\ statList[at].count >= 1
                  /\ statList[at].count = matches[id].endpoint_from
                                            + matches[id].endpoint_to
                                            + matches[id].notes_match
                  /\ PositionOf(optionList, id, 1) # 0

-----------------------------------------------------------------------------
(* The page from its first render: the first pass of the effects, the      *)
(* fetch of the catalog, the restore of the saved logbook, later passes of *)
(* the home base effects, and one import by the pilot.  A pass of effects  *)
(* runs to its end with the state of its render; what the asynchronous     *)
(* steps set is seen by the next pass.  The memo matches, which no effect  *)
(* modelled here reads, is left at rest.                                   *)

MaxImports == 1

DEFAULT_DOT_RADIUS == 10

\* the logbook files of the pilot, and what parseForeFlightCsv returns for
\* each: the first flight of the logbook; the same with a blank line at the
\* end; the first two flights; a header without rows; a file that is no
\* logbook
FileOne == "one flight"
FileOneBlank == "one flight and a blank line"
FileTwo == "two flights"
FileHeader == "header only"
FileOther == "no logbook"

ImportFiles == {FileOne, FileOneBlank, FileTwo, FileHeader, FileOther}
SavedFiles == {FileOne, FileTwo}

parseFile(text) ==
    IF text \in {FileOne, FileOneBlank}
    THEN [flights |-> SubSeq(AppLogbook, 1, 1), error |-> Undefined]
    ELSE IF text = FileTwo
    THEN [flights |-> SubSeq(AppLogbook, 1, 2), error |-> Undefined]
    ELSE IF text = FileHeader
    THEN [flights |-> <<>>, error |-> Undefined]
    ELSE [flights |-> <<>>, error |-> NoFlightsTable]

\* localStorage as an earlier visit left it: the settings with the values
\* the page starts with, and the home base
ReturningLocalStorage(homeBase) ==
    [ foreflight_csv |-> None, dot_radius |-> Some(DEFAULT_DOT_RADIUS),
      selected_state |-> Some(CONUS), home_base |-> homeBase, map_filter |-> Some("all") ]

\* the first render: a first visit, or a visit with stored settings, with
\* or without a saved logbook, and with a home base among its airports
InitMount ==
    /\ apc = "mounting"
    /\ appFacilities = <<>>
    /\ selectedState = CONUS
    /\ manualStateSelection = FALSE
    /\ mapFilter = "all"
    /\ homeBaseId = None
    /\ tripMaxDistanceNm = TRIP_DISTANCE_DEFAULT
    /\ tripMinRunwayFt = 800
    /\ tripSurfaceFilter = Paved
    /\ tripTowerFilter = "any"
    /\ mpc = "idle"
    /\ mflights = <<>>
    /\ facilityIds = appFacilityIds(appScopeFacilities)
    /\ facilitiesById = Some(appScopeFacilities)
    /\ matches = <<>>
    /\ fi = 0
    /\ coordCalls = <<>>
    /\ tpc = "idle"
    /\ \/ idb = None /\ ls \in {EmptyLocalStorage, ReturningLocalStorage(None)}
       \/ /\ idb \in { Some([csvText |-> text, savedAt |-> 0]) : text \in SavedFiles }
          /\ ls \in { ReturningLocalStorage(homeBase) :
                        homeBase \in {None, Some(SQL), Some(PAO)} }
    /\ saveCount = 0
    /\ lastSaved = None
    /\ cleared = FALSE
    /\ lastOp = "none"
    /\ loaded = None
    /\ MountIdle
    /\ NormIdle
    /\ ParseIdle
    /\ VisitIdle
    /\ ScopeIdle
    /\ CatalogIdle
    /\ RunsIdle
    /\ StatsIdle

mountFrame == <<tripMaxDistanceNm, tripMinRunwayFt, tripSurfaceFilter, tripTowerFilter,
                mapFilter, mpc, matches, fi, coordCalls, tpc, lastSaved, cleared, lastOp,
                loaded,
                exceptMount>>

mountedFrame == <<apc, mountFrame>>

\* the home base effect for one render: the homeBaseId it leaves
HomeBaseAfterEffect(id, choices) ==
    IF choices = <<>> THEN None
    ELSE IF id # None /\ \E n \in 1..Len(choices) : choices[n].id = ValueOf(id) THEN id
    ELSE Some(choices[1].id)

\* the effects after the first render, in the order of their declaration,
\* each with the state of that render: the fetch of the catalog starts; the
\* settings are read from localStorage and the state of the render is
\* saved under each key (the refs were set by the effects before); the
\* restore starts; the home base effect runs
MountEffects ==
    /\ apc = "mounting"
    /\ apc' = "mounted"
    /\ catalogPending' = TRUE
    /\ selectedState' = (IF ls.selected_state = None THEN CONUS
                         ELSE ValueOf(ls.selected_state))
    /\ manualStateSelection' = (ls.selected_state # None)
    /\ storedAtMount' = ls.home_base
    /\ homeBaseHydrated' = TRUE
    /\ ls' = [ls EXCEPT !.dot_radius = Some(DEFAULT_DOT_RADIUS),
                        !.selected_state = Some(selectedState),
                        !.home_base = homeBaseId,
                        !.map_filter = Some(mapFilter)]
    /\ restorePc' = "opening"
    /\ LET choices == homeBaseOptions
           effect == HomeBaseAfterEffect(homeBaseId, choices)
       IN  homeBaseId' = IF effect # homeBaseId THEN effect ELSE ls.home_base
    /\ saveDue' = (homeBaseId' # homeBaseId)
    /\ homeBaseDue' = (homeBaseId' # homeBaseId)
    /\ UNCHANGED <<appFacilities, mflights, facilityIds, facilitiesById, idb,
                   saveCount, restoreRead, importPc, importText, imports, imported,
                   mountFrame>>

\* the effects after a later render: saveHomeBase when homeBaseId changed,
\* and the home base effect when homeBaseId or the options changed
EffectsPass ==
    /\ apc = "mounted"
    /\ saveDue \/ homeBaseDue
    /\ ls' = IF saveDue /\ homeBaseHydrated THEN [ls EXCEPT !.home_base = homeBaseId] ELSE ls
    /\ homeBaseId' = IF homeBaseDue THEN HomeBaseAfterEffect(homeBaseId, homeBaseOptions)
                     ELSE homeBaseId
    /\ saveDue' = (homeBaseId' # homeBaseId)
    /\ homeBaseDue' = (homeBaseId' # homeBaseId)
    /\ UNCHANGED <<appFacilities, selectedState, manualStateSelection, mflights,
                   facilityIds, facilitiesById, idb, saveCount,
                   homeBaseHydrated, catalogPending, restorePc, restoreRead, importPc,
                   importText, imports, storedAtMount, imported, mountedFrame>>

\* the catalog arrives: setPublicFacilities(parseFacilitiesMaster(text))
CatalogLoaded ==
    /\ apc = "mounted"
    /\ catalogPending
    /\ catalogPending' = FALSE
    /\ \E catalog \in AppCatalogPool :
          LET scoped == buildScopeFacilities("public", catalog, <<>>, FALSE)
          IN  /\ appFacilities' = catalog
              /\ facilityIds' = appFacilityIds(scoped)
              /\ facilitiesById' = Some(scoped)
    /\ homeBaseDue' = TRUE
    /\ UNCHANGED <<selectedState, manualStateSelection, homeBaseId, mflights, idb, ls, saveCount,
                   homeBaseHydrated, restorePc, restoreRead, importPc, importText, imports,
                   saveDue, storedAtMount, imported, mountedFrame>>

\* the fetch of the catalog fails: setPublicError
CatalogFailed ==
    /\ apc = "mounted"
    /\ catalogPending
    /\ catalogPending' = FALSE
    /\ UNCHANGED <<appFacilities, selectedState, manualStateSelection, homeBaseId, mflights,
                   facilityIds, facilitiesById, idb, ls, saveCount,
                   homeBaseHydrated, restorePc, restoreRead, importPc, importText, imports,
                   saveDue, homeBaseDue, storedAtMount, imported, mountedFrame>>

\* restoreSavedCsv when its loadSavedCsv has returned: nothing saved, or
\* the saved text is parsed and its flights are set.  From the event that
\* settles the read to the end of restoreSavedCsv only promise reactions run,
\* so no other step comes between
RestoreSets(saved) ==
    /\ restoreRead' = saved
    /\ restorePc' = "done"
    /\ IF saved = None
       THEN UNCHANGED <<mflights, homeBaseDue>>
       ELSE /\ mflights' = parseFile(ValueOf(saved).csvText).flights
            /\ homeBaseDue' = TRUE

\* loadSavedCsv, openDb: the database opens and the read transaction is
\* created, or the open is rejected and localStorage is read
RestoreOpen ==
    /\ restorePc = "opening"
    /\ \E idbWorks \in BOOLEAN :
          IF idbWorks
          THEN /\ restorePc' = "queued"
               /\ UNCHANGED <<restoreRead, mflights, homeBaseDue>>
          ELSE RestoreSets(loadSavedCsv(FALSE))
    /\ UNCHANGED <<appFacilities, selectedState, manualStateSelection, homeBaseId,
                   facilityIds, facilitiesById, idb, ls, saveCount, homeBaseHydrated,
                   catalogPending, importPc, importText, imports, saveDue,
                   storedAtMount, imported, mountedFrame>>

\* loadSavedCsv, getIdbValue: the request of the read transaction succeeds
\* or fails, and restoreSavedCsv runs to its end
RestoreRun ==
    /\ restorePc = "queued"
    /\ \E idbWorks \in BOOLEAN : RestoreSets(loadSavedCsv(idbWorks))
    /\ UNCHANGED <<appFacilities, selectedState, manualStateSelection, homeBaseId,
                   facilityIds, facilitiesById, idb, ls, saveCount, homeBaseHydrated,
                   catalogPending, importPc, importText, imports, saveDue,
                   storedAtMount, imported, mountedFrame>>

\* handleForeFlightFile: the pilot picks a file
ImportStart ==
    /\ apc = "mounted"
    /\ importPc = "idle"
    /\ imports < MaxImports
    /\ imports' = imports + 1
    /\ \E text \in ImportFiles : importText' = Some(text)
    /\ importPc' = "reading"
    /\ UNCHANGED <<appFacilities, selectedState, manualStateSelection, homeBaseId, mflights,
                   facilityIds, facilitiesById, idb, ls, saveCount,
                   homeBaseHydrated, catalogPending, restorePc, restoreRead, saveDue,
                   homeBaseDue, storedAtMount, imported, mountedFrame>>

\* handleForeFlightFile after file.text(): a parse error or no flights ends
\* the import; otherwise saveSavedCsv is called
ImportParse ==
    /\ importPc = "reading"
    /\ LET result == parseFile(ValueOf(importText))
       IN  IF result.error # Undefined \/ Len(result.flights) = 0
           THEN importPc' = "idle" /\ importText' = None
           ELSE importPc' = "opening" /\ importText' = importText
    /\ UNCHANGED <<appFacilities, selectedState, manualStateSelection, homeBaseId, mflights,
                   facilityIds, facilitiesById, idb, ls, saveCount,
                   homeBaseHydrated, catalogPending, restorePc, restoreRead, imports,
                   saveDue, homeBaseDue, storedAtMount, imported, mountedFrame>>

\* handleForeFlightFile when its saveSavedCsv has returned: the flights
\* are set
ImportSets ==
    /\ mflights' = parseFile(ValueOf(importText)).flights
    /\ selectedState' = CONUS
    /\ manualStateSelection' = FALSE
    /\ homeBaseDue' = TRUE
    /\ imported' = Some(mflights')
    /\ saveCount' = saveCount + 1
    /\ importPc' = "idle"
    /\ importText' = None

\* saveSavedCsv, openDb: the database opens and the write transaction is
\* created, or the open is rejected, the payload is written to
\* localStorage and handleForeFlightFile runs to its end.  Requests to open
\* one database are served in the order they were made, and the restore
\* made its request when the page mounted
ImportOpen ==
    /\ importPc = "opening"
    /\ restorePc # "opening"
    /\ \E idbWorks \in BOOLEAN :
          IF idbWorks
          THEN /\ importPc' = "queued"
               /\ UNCHANGED <<ls, mflights, selectedState, manualStateSelection,
                              homeBaseDue, imported, saveCount, importText>>
          ELSE /\ ls' = FallbackWrite(ls, [csvText |-> ValueOf(importText),
                                           savedAt |-> saveCount + 1])
               /\ ImportSets
    /\ UNCHANGED <<appFacilities, homeBaseId, facilityIds, facilitiesById, idb,
                   homeBaseHydrated, catalogPending, restorePc, restoreRead, imports,
                   saveDue, storedAtMount, mountedFrame>>

\* saveSavedCsv, setIdbValue: the put succeeds, or it fails and the payload
\* is written to localStorage; handleForeFlightFile runs to its end.  A
\* write transaction starts when the transactions on the store created
\* before it have finished
ImportRun ==
    /\ importPc = "queued"
    /\ restorePc = "done"
    /\ \E idbWorks \in BOOLEAN :
          LET payload == [csvText |-> ValueOf(importText), savedAt |-> saveCount + 1]
          IN  IF idbWorks
              THEN idb' = Some(payload) /\ ls' = ls
              ELSE idb' = idb /\ ls' = FallbackWrite(ls, payload)
    /\ ImportSets
    /\ UNCHANGED <<appFacilities, homeBaseId, facilityIds, facilitiesById,
                   homeBaseHydrated, catalogPending, restorePc, restoreRead, imports,
                   saveDue, storedAtMount, mountedFrame>>

NextMount ==
    \/ MountEffects
    \/ EffectsPass
    \/ CatalogLoaded
    \/ CatalogFailed
    \/ RestoreOpen
    \/ RestoreRun
    \/ ImportStart
    \/ ImportParse
    \/ ImportOpen
    \/ ImportRun

SpecMount == InitMount /\ [][NextMount]_vars

-----------------------------------------------------------------------------
(* Properties of the page after it mounts *)

\* nothing is pending: the effects have run, the fetch and the restore have
\* settled and no import is under way
Settled ==
    /\ apc = "mounted"
    /\ ~saveDue
    /\ ~homeBaseDue
    /\ ~catalogPending
    /\ restorePc = "done"
    /\ importPc = "idle"

IsHomeBaseOption(id) ==
    LET choices == homeBaseOptions
    IN  \E n \in 1..Len(choices) : choices[n].id = id

\* C29: if a home base X was saved and the saved logbook makes X a home
\* base option, then once the page has mounted and the effects, the fetch of
\* the catalog and the restore have settled, homeBaseId is X and the stored
\* home base is still X; and in every settled state homeBaseId is null
\* exactly when there are no home base options and is otherwise an option.
C29_HomeBaseRestored ==
    Settled =>
        /\ (imports = 0 /\ storedAtMount # None /\ IsHomeBaseOption(ValueOf(storedAtMount)))
              => (homeBaseId = storedAtMount /\ ls.home_base = storedAtMount)
        /\ (homeBaseId = None) <=> (homeBaseOptions = <<>>)
        /\ homeBaseId # None => IsHomeBaseOption(ValueOf(homeBaseId))

\* the restore and an import have both completed
BothCompleted ==
    /\ restorePc = "done"
    /\ importPc = "idle"
    /\ imported # None

\* the displayed flights are the parse of the stored logbook: of what
\* loadSavedCsv returns, with IndexedDB or without
DisplayedIsStored ==
    \E idbWorks \in BOOLEAN :
        LET saved == loadSavedCsv(idbWorks)
        IN  /\ saved # None
            /\ mflights = parseFile(ValueOf(saved).csvText).flights

\* the restore runs to its end after an import has completed
RestoreAfterImport ==
    /\ restorePc # "done"
    /\ restorePc' = "done"
    /\ imported # None

\* an import ends on a parse error or on a file without flights
ImportFails ==
    /\ importPc = "reading"
    /\ importPc' = "idle"

\* C30: for every interleaving of the restore started at mount with an
\* import, once both have completed the displayed flights are the parse of
\* the logbook in storage; the restore never overwrites the flights of an
\* import that completed before it; and a failed import leaves the
\* displayed flights and the stored logbook unchanged.
C30_RestoreAndImport ==
    /\ [](BothCompleted => DisplayedIsStored)
    /\ [][RestoreAfterImport => mflights' = mflights]_vars
    /\ [][ImportFails => (mflights' = mflights /\ idb' = idb /\ ls' = ls)]_vars

====
